---- MODULE Spec2Model ----
(***************************************************************************)
(* Unsorted Block Images (UBI) layer of kamil-kielbasa/ubi: the flash      *)
(* partition (two metadata banks and the data PEBs), the in-RAM device     *)
(* (free/dirty/bad pools, volumes with their EBA tables, the sequence      *)
(* counters) and the public operations of src/lib/src/ubi.c with the      *)
(* helpers of src/lib/src/ubi_utils.c.                                     *)
(***************************************************************************)
EXTENDS Integers, Sequences, FiniteSets, TLC

(***************************************************************************)
(* Bounds of the model.                                                    *)
(***************************************************************************)
\* number of erase blocks of the partition (fa_size / erase_block_size)
NPeb == 4
\* payload area of a PEB, in write blocks
DataBlocks == 2
\* largest value global_seqnr may reach
MaxSeq == 3
\* largest erase counter a PEB may reach
MaxEc == 2
\* largest device-header revision
MaxRev == 5
\* table revisions in the runs with power loss
MaxCrashRev == 3
\* largest leb_count a caller asks for
MaxLebCount == 2
\* CONFIG_UBI_MAX_NR_OF_VOLUMES (Kconfig value, chosen small)
MaxVolumes == 4
MaxVolId == 3
MaxBad == 2
\* threads that call into the device
NThreads == 2
\* locks a thread may leave behind
MaxLeak == 1

(***************************************************************************)
(* Program constants.                                                      *)
(***************************************************************************)
WRITE_BLOCK_SIZE_ALIGNMENT == 16
UBI_DEV_HDR_NR_OF_RES_PEBS == 2
UBI_DEV_HDR_RES_PEB_0 == 0
UBI_DEV_HDR_RES_PEB_1 == 1
UBI_EC_HDR_SIZE == 16
UBI_VID_HDR_SIZE == 32
UBI_VOLUME_NAME_MAX_LEN == 16
UBI_VOLUME_TYPE_STATIC == 0
UBI_VOLUME_TYPE_DYNAMIC == 1
UBI_DEV_HDR_MAGIC == 1430407461
UBI_VOL_HDR_MAGIC == 1430407462
UBI_EC_HDR_MAGIC == 1430407459
UBI_VID_HDR_MAGIC == 1430407457
\* an erased flash byte; an erased header field is written FF as well
FF == 255

CONFIG_UBI_MAX_NR_OF_VOLUMES == MaxVolumes

\* return codes: 0 and the negated errno values the code returns
OK == "OK"
EIO == "EIO"
ENOENT == "ENOENT"
ENOMEM == "ENOMEM"
EACCES == "EACCES"
EINVAL == "EINVAL"
ENOSPC == "ENOSPC"
EBADMSG == "EBADMSG"
ECANCELED == "ECANCELED"
\* the division by zero at ec_sum / ec_count stops the program
FAULT == "FAULT"

erase_block_size == UBI_EC_HDR_SIZE + UBI_VID_HDR_SIZE + (DataBlocks * WRITE_BLOCK_SIZE_ALIGNMENT)
\* the payload bytes of one LEB
LEB_MAX == erase_block_size - UBI_EC_HDR_SIZE - UBI_VID_HDR_SIZE

UsablePebs == UBI_DEV_HDR_NR_OF_RES_PEBS .. (NPeb - 1)

(***************************************************************************)
(* State.                                                                  *)
(***************************************************************************)
VARIABLES
    bank,          \* flash: PEB 0 and PEB 1, the two copies of the device header and volume table
    peb,           \* flash: the data PEBs, each with EC header, VID header and payload area
    mounted,       \* TRUE while a struct ubi_device exists (between device_init and device_deinit)
    free_pebs,     \* ubi->free_pebs, in tree order: items [key |-> ec, pnum]
    dirty_pebs,    \* ubi->dirty_pebs, in tree order
    bad_pebs,      \* ubi->bad_pebs, in list order: [peb_index, nr_of_erases]
    global_seqnr,  \* ubi->global_seqnr
    vols_seqnr,    \* ubi->vols_seqnr
    vols,          \* ubi->vols, in tree order: struct ubi_volume with its eba_tbl
    thr,           \* ubi->mutex and the threads: which call each one is in
    hist           \* history the properties refer to (never read by the operations)

vars == <<bank, peb, mounted, free_pebs, dirty_pebs, bad_pebs, global_seqnr, vols_seqnr, vols, thr, hist>>


(***************************************************************************)
(* Small helpers.                                                          *)
(***************************************************************************)

RECURSIVE SumSeq(_)
SumSeq(s) == IF s = <<>> THEN 0 ELSE Head(s) + SumSeq(Tail(s))

Fill(n, b) == [i \in 1..n |-> b]

RemoveAt(s, i) == SubSeq(s, 1, i - 1) \o SubSeq(s, i + 1, Len(s))


(***************************************************************************)
(* The red-black trees.  Every tree of the device uses ubi_rbt_cmp, which  *)
(* orders a node before every node whose key is not smaller; a tree is     *)
(* kept here as the sequence of its items in tree order.                   *)
(***************************************************************************)
\* a comparison that orders the trees by falling key
ubi_rbt_cmp_Reversed(a, b) == ~(a.key < b.key)

\* ubi_rbt_cmp(a, b): TRUE unless a's key is greater
ubi_rbt_cmp(a, b) == ~(a.key > b.key)

\* rb_insert: the new node descends left wherever ubi_rbt_cmp(new, node) holds
rb_insert(tree, item) ==
    LET before == {i \in DOMAIN tree : \A j \in 1..i : ~ubi_rbt_cmp(item, tree[j])}
        n == Cardinality(before)
    IN  SubSeq(tree, 1, n) \o <<item>> \o SubSeq(tree, n + 1, Len(tree))

\* the last node in tree order instead of the first
rb_get_min_Last(tree) == tree[Len(tree)]

\* rb_get_min: the first node in tree order (callers check for an empty tree)
rb_get_min(tree) == tree[1]

\* ubi_rbt_search: position of the item with this key, 0 when there is none
ubi_rbt_search(tree, key) ==
    IF \E i \in DOMAIN tree : tree[i].key = key
    THEN CHOOSE i \in DOMAIN tree : tree[i].key = key /\ \A j \in 1..(i - 1) : tree[j].key # key
    ELSE 0

Item(key, pnum) == [key |-> key, pnum |-> pnum]

(***************************************************************************)
(* On-media headers.  hdr_crc is kept as crc_ok: whether the stored CRC    *)
(* matches the stored fields.                                              *)
(***************************************************************************)
ErasedEcHdr == [magic |-> FF, ec |-> FF, crc_ok |-> FALSE]
ErasedVidHdr == [magic |-> FF, lnum |-> FF, vol_id |-> FF, sqnum |-> FF, data_size |-> FF, crc_ok |-> FALSE]
ErasedDevHdr == [magic |-> FF, revision |-> FF, vol_count |-> FF, crc_ok |-> FALSE]
ZeroName == Fill(UBI_VOLUME_NAME_MAX_LEN, 0)
ErasedVolHdr == [magic |-> FF, vol_type |-> FF, vol_id |-> FF, lebs_count |-> FF,
                 name |-> Fill(UBI_VOLUME_NAME_MAX_LEN, FF), crc_ok |-> FALSE]
\* struct ubi_vol_hdr vol_hdr = { 0 }
ZeroVolHdr == [magic |-> 0, vol_type |-> 0, vol_id |-> 0, lebs_count |-> 0, name |-> ZeroName, crc_ok |-> FALSE]

ErasedData == Fill(LEB_MAX, FF)
ErasedPeb == [ec_hdr |-> ErasedEcHdr, vid_hdr |-> ErasedVidHdr, data |-> ErasedData]
ErasedBank == [dev_hdr |-> ErasedDevHdr, vol_hdrs |-> <<>>]

MakeEcHdr(ec) == [magic |-> UBI_EC_HDR_MAGIC, ec |-> ec, crc_ok |-> TRUE]
MakeVidHdr(lnum, vol_id, sqnum, data_size) ==
    [magic |-> UBI_VID_HDR_MAGIC, lnum |-> lnum, vol_id |-> vol_id, sqnum |-> sqnum,
     data_size |-> data_size, crc_ok |-> TRUE]
MakeDevHdr(revision, vol_count) ==
    [magic |-> UBI_DEV_HDR_MAGIC, revision |-> revision, vol_count |-> vol_count, crc_ok |-> TRUE]

\* strncpy(dst, src, UBI_VOLUME_NAME_MAX_LEN): copy up to the first NUL, pad with NUL
strncpy_name(src) ==
    LET nul == {i \in DOMAIN src : src[i] = 0}
        n == IF nul = {} THEN Len(src) ELSE (CHOOSE i \in nul : \A j \in nul : i <= j) - 1
    IN  [i \in 1..UBI_VOLUME_NAME_MAX_LEN |-> IF i <= n THEN src[i] ELSE 0]

\* strnlen(name, UBI_VOLUME_NAME_MAX_LEN)
strnlen_name(name) ==
    LET nul == {i \in DOMAIN name : name[i] = 0}
    IN  IF nul = {} THEN Len(name) ELSE (CHOOSE i \in nul : \A j \in nul : i <= j) - 1

MakeVolHdr(vol_type, vol_id, lebs_count, name) ==
    [magic |-> UBI_VOL_HDR_MAGIC, vol_type |-> vol_type, vol_id |-> vol_id,
     lebs_count |-> lebs_count, name |-> strncpy_name(name), crc_ok |-> TRUE]

DevHdrValid(h) == h.magic = UBI_DEV_HDR_MAGIC /\ h.crc_ok
VolHdrValid(h) == h.magic = UBI_VOL_HDR_MAGIC /\ h.crc_ok
EcHdrValid(h) == h.magic = UBI_EC_HDR_MAGIC /\ h.crc_ok
VidHdrValid(h) == h.magic = UBI_VID_HDR_MAGIC /\ h.crc_ok

(***************************************************************************)
(* Dual-bank metadata, read side (ubi_utils.c).  Each takes the banks as   *)
(* they are on flash.                                                      *)
(***************************************************************************)
ubi_dev_is_mounted(bk) ==
    DevHdrValid(bk[UBI_DEV_HDR_RES_PEB_0].dev_hdr) /\ DevHdrValid(bk[UBI_DEV_HDR_RES_PEB_1].dev_hdr)

\* [ret, hdr]
ubi_dev_hdr_read(bk) ==
    LET h1 == bk[UBI_DEV_HDR_RES_PEB_0].dev_hdr
        h2 == bk[UBI_DEV_HDR_RES_PEB_1].dev_hdr
    IN  IF DevHdrValid(h1) /\ DevHdrValid(h2)
        THEN IF h1.revision # h2.revision THEN [ret |-> EBADMSG, hdr |-> ErasedDevHdr]
             ELSE IF h1 # h2 THEN [ret |-> EBADMSG, hdr |-> ErasedDevHdr]
             ELSE [ret |-> OK, hdr |-> h1]
        ELSE [ret |-> ENOENT, hdr |-> ErasedDevHdr]

\* the volume-table entry at index (0-based) of one bank; flash past the written table is erased
VolEntry(b, index) == IF index + 1 \in DOMAIN b.vol_hdrs THEN b.vol_hdrs[index + 1] ELSE ErasedVolHdr

\* [ret, hdr]; hdr is the caller's zeroed struct when nothing was copied
ubi_vol_hdr_read(bk, index) ==
    LET h1 == bk[UBI_DEV_HDR_RES_PEB_0].dev_hdr
        h2 == bk[UBI_DEV_HDR_RES_PEB_1].dev_hdr
        v1 == VolEntry(bk[UBI_DEV_HDR_RES_PEB_0], index)
        v2 == VolEntry(bk[UBI_DEV_HDR_RES_PEB_1], index)
    IN  IF index > CONFIG_UBI_MAX_NR_OF_VOLUMES THEN [ret |-> EINVAL, hdr |-> ZeroVolHdr]
        ELSE IF DevHdrValid(h1) /\ DevHdrValid(h2)
        THEN IF h1.revision # h2.revision THEN [ret |-> EBADMSG, hdr |-> ZeroVolHdr]
             ELSE IF h1 # h2 THEN [ret |-> EBADMSG, hdr |-> ZeroVolHdr]
             ELSE IF VolHdrValid(v1) /\ VolHdrValid(v2) THEN [ret |-> OK, hdr |-> v1]
             ELSE [ret |-> OK, hdr |-> ZeroVolHdr]
        ELSE [ret |-> EACCES, hdr |-> ZeroVolHdr]

(***************************************************************************)
(* Data PEB access (ubi_utils.c).                                          *)
(***************************************************************************)
\* the pnum checks of the helpers, with the flash area's own bounds check
PnumOk(pnum) == pnum \in UsablePebs

\* [ret, hdr]
ubi_ec_hdr_read(pb, pnum) ==
    IF ~PnumOk(pnum) THEN [ret |-> EINVAL, hdr |-> ErasedEcHdr]
    ELSE IF ~EcHdrValid(pb[pnum].ec_hdr) THEN [ret |-> EBADMSG, hdr |-> ErasedEcHdr]
    ELSE [ret |-> OK, hdr |-> pb[pnum].ec_hdr]

\* [ret, hdr]; hdr is copied out before the check
ubi_vid_hdr_read(pb, pnum, check) ==
    IF ~PnumOk(pnum) THEN [ret |-> EINVAL, hdr |-> ErasedVidHdr]
    ELSE IF check /\ ~VidHdrValid(pb[pnum].vid_hdr) THEN [ret |-> EBADMSG, hdr |-> pb[pnum].vid_hdr]
    ELSE [ret |-> OK, hdr |-> pb[pnum].vid_hdr]

\* flash_area_write of bytes at offset off of a payload area
FlashWrite(data, off, bytes) ==
    [i \in DOMAIN data |-> IF i > off /\ i <= off + Len(bytes) THEN bytes[i - off] ELSE data[i]]

\* ubi_leb_data_write that leaves out the rest after the last whole write block
ubi_leb_data_write_NoRest(data, buf) ==
    LET len == Len(buf)
        left_size == len % WRITE_BLOCK_SIZE_ALIGNMENT
    IN  FlashWrite(data, 0, SubSeq(buf, 1, len - left_size))

\* the payload area after ubi_leb_data_write(buf, len) succeeded
ubi_leb_data_write(data, buf) ==
    LET len == Len(buf)
        left_size == len % WRITE_BLOCK_SIZE_ALIGNMENT
        pad(b) == b \o Fill(WRITE_BLOCK_SIZE_ALIGNMENT - Len(b), 0)
    IN  IF left_size = 0 THEN FlashWrite(data, 0, buf)
        ELSE IF len < WRITE_BLOCK_SIZE_ALIGNMENT THEN FlashWrite(data, 0, pad(buf))
        ELSE FlashWrite(FlashWrite(data, 0, SubSeq(buf, 1, len - left_size)),
                        len - left_size, pad(SubSeq(buf, len - left_size + 1, len)))

\* [ret, buf]
ubi_leb_data_read(pb, pnum, offset, len) ==
    IF len = 0 THEN [ret |-> EINVAL, buf |-> <<>>]
    ELSE IF ~PnumOk(pnum) THEN [ret |-> EINVAL, buf |-> <<>>]
    ELSE IF offset + len > LEB_MAX THEN [ret |-> ENOSPC, buf |-> <<>>]
    ELSE [ret |-> OK, buf |-> SubSeq(pb[pnum].data, offset + 1, offset + len)]

(***************************************************************************)
(* In-RAM volumes: ubi->vols holds items [key |-> vol_id, vol |-> volume]. *)
(***************************************************************************)
\* a volume whose name is not copied from the header
MakeVolume_NoName(vol_idx, vol_hdr) ==
    [vol_idx |-> vol_idx, vol_id |-> vol_hdr.vol_id,
     cfg |-> [name |-> ZeroName, type |-> vol_hdr.vol_type, leb_count |-> vol_hdr.lebs_count],
     eba_tbl |-> <<>>]

MakeVolume(vol_idx, vol_hdr) ==
    [vol_idx |-> vol_idx, vol_id |-> vol_hdr.vol_id,
     cfg |-> [name |-> strncpy_name(vol_hdr.name), type |-> vol_hdr.vol_type,
              leb_count |-> vol_hdr.lebs_count],
     eba_tbl |-> <<>>]

VolItem(vol) == [key |-> vol.vol_id, vol |-> vol]

\* the volumes tree with the EBA table of the volume at position i replaced
SetEba(vs, i, eba) == [vs EXCEPT ![i].vol.eba_tbl = eba]

BadItem(pnum, nr_of_erases) == [peb_index |-> pnum, nr_of_erases |-> nr_of_erases]

\* move_to_bad_blocks: append to ubi->bad_pebs
move_to_bad_blocks(bad, pnum, nr_of_erases) == Append(bad, BadItem(pnum, nr_of_erases))

(***************************************************************************)
(* ubi_device_init, step 1: an unmounted partition is formatted.           *)
(***************************************************************************)
\* ubi_dev_mount: both banks get a device header with revision 0 and no volumes
ubi_dev_mount(bk) ==
    [b \in DOMAIN bk |-> [dev_hdr |-> MakeDevHdr(0, 0), vol_hdrs |-> <<>>]]

\* a format that erases the data PEBs and writes no EC header
FormatPebs_NoEc(pb) == [p \in DOMAIN pb |-> ErasedPeb]

\* every data PEB is erased and given an EC header with ec = 0
FormatPebs(pb) == [p \in DOMAIN pb |-> [ErasedPeb EXCEPT !.ec_hdr = MakeEcHdr(0)]]

(***************************************************************************)
(* ubi_device_init, step 2: the volumes of the on-media table.             *)
(***************************************************************************)
\* [ret, vols, vols_seqnr] after reading entries vol_idx .. vol_count-1
RECURSIVE CollectVolumes(_, _, _, _, _)
CollectVolumes(bk, vol_idx, vol_count, vs, seqnr) ==
    IF vol_idx >= vol_count THEN [ret |-> OK, vols |-> vs, vols_seqnr |-> seqnr]
    ELSE LET r == ubi_vol_hdr_read(bk, vol_idx)
             vol == MakeVolume(vol_idx, r.hdr)
         IN  IF r.ret # OK THEN [ret |-> r.ret, vols |-> vs, vols_seqnr |-> seqnr]
             ELSE CollectVolumes(bk, vol_idx + 1, vol_count, rb_insert(vs, VolItem(vol)),
                                 IF vol.vol_id > seqnr THEN vol.vol_id ELSE seqnr)

(***************************************************************************)
(* ubi_device_init, step 3: the average of the valid erase counters.       *)
(***************************************************************************)
ValidEcPebs(pb) == {p \in UsablePebs : ubi_ec_hdr_read(pb, p).ret = OK}

RECURSIVE SumEc(_, _)
SumEc(pb, ps) ==
    IF ps = {} THEN 0
    ELSE LET p == CHOOSE q \in ps : TRUE IN pb[p].ec_hdr.ec + SumEc(pb, ps \ {p})

ec_sum(pb) == SumEc(pb, ValidEcPebs(pb))
ec_count(pb) == Cardinality(ValidEcPebs(pb))

(***************************************************************************)
(* ubi_device_init, step 4: the scan of one PEB.  st is the device under   *)
(* construction; garbage is what the unset value.pnum of a freshly         *)
(* allocated item holds should branch 4.4.7.2 insert it.                   *)
(***************************************************************************)
ScanPeb(pb, pnum, ec_avg, garbage, st) ==
    LET ec == ubi_ec_hdr_read(pb, pnum)
        raw == ubi_vid_hdr_read(pb, pnum, FALSE)
        vid == ubi_vid_hdr_read(pb, pnum, TRUE)
        seq == IF vid.hdr.sqnum > st.global_seqnr THEN vid.hdr.sqnum ELSE st.global_seqnr
        vi == ubi_rbt_search(st.vols, vid.hdr.vol_id)
        vol == st.vols[vi].vol
        ti == ubi_rbt_search(vol.eba_tbl, vid.hdr.lnum)
        tmp == vol.eba_tbl[ti]
        exist_ec == ubi_ec_hdr_read(pb, tmp.pnum)
        exist_vid == ubi_vid_hdr_read(pb, tmp.pnum, TRUE)
    IN  \* 4.1
        IF ec.ret # OK
        THEN [st EXCEPT !.bad_pebs = move_to_bad_blocks(@, pnum, ec_avg)]
        \* 4.2
        ELSE IF raw.hdr = ErasedVidHdr
        THEN [st EXCEPT !.free_pebs = rb_insert(@, Item(ec.hdr.ec, pnum))]
        \* 4.3
        ELSE IF vid.ret # OK
        THEN [st EXCEPT !.bad_pebs = move_to_bad_blocks(@, pnum, ec.hdr.ec)]
        \* 4.4.1 - 4.4.3
        ELSE IF vi = 0
        THEN [st EXCEPT !.global_seqnr = seq,
                        !.dirty_pebs = rb_insert(@, Item(ec.hdr.ec, pnum))]
        ELSE IF ti = 0
        THEN \* 4.4.4
             IF vid.hdr.lnum >= vol.cfg.leb_count
             THEN [st EXCEPT !.global_seqnr = seq,
                             !.dirty_pebs = rb_insert(@, Item(ec.hdr.ec, pnum))]
             \* 4.4.5
             ELSE [st EXCEPT !.global_seqnr = seq,
                             !.vols = SetEba(@, vi, rb_insert(vol.eba_tbl, Item(vid.hdr.lnum, pnum)))]
        \* 4.4.6
        ELSE IF exist_ec.ret # OK
        THEN [st EXCEPT !.global_seqnr = seq,
                        !.bad_pebs = move_to_bad_blocks(@, tmp.pnum, ec_avg)]
        ELSE IF exist_vid.ret # OK
        THEN [st EXCEPT !.global_seqnr = seq,
                        !.bad_pebs = move_to_bad_blocks(@, tmp.pnum, ec.hdr.ec)]
        \* 4.4.7.1
        ELSE IF vid.hdr.sqnum < exist_vid.hdr.sqnum
        THEN [st EXCEPT !.global_seqnr = seq,
                        !.dirty_pebs = rb_insert(@, Item(ec.hdr.ec, pnum))]
        \* 4.4.7.2: item->key = vid_hdr.lnum; item->key = pnum; value.pnum is never set
        ELSE [st EXCEPT !.global_seqnr = seq,
                        !.dirty_pebs = rb_insert(@, Item(exist_ec.hdr.ec, tmp.pnum)),
                        !.vols = SetEba(@, vi, rb_insert(RemoveAt(vol.eba_tbl, ti),
                                                         Item(pnum, garbage)))]

RECURSIVE ScanFrom(_, _, _, _, _)
ScanFrom(pb, pnum, ec_avg, garbage, st) ==
    IF pnum >= NPeb THEN st
    ELSE ScanFrom(pb, pnum + 1, ec_avg, garbage, ScanPeb(pb, pnum, ec_avg, garbage[pnum], st))

\* the PEBs whose scan may reach branch 4.4.7.2: a valid VID header, and a lower PEB with one
NeedGarbage(pb) ==
    {p \in UsablePebs : VidHdrValid(pb[p].vid_hdr) /\ EcHdrValid(pb[p].ec_hdr)
                        /\ \E q \in UsablePebs : q < p /\ VidHdrValid(pb[q].vid_hdr)}

\* what an unset value.pnum may hold: a data PEB, or a number that is none (0 stands for these)
GarbagePnum == {0} \cup UsablePebs

GarbageChoices(pb) ==
    {[p \in UsablePebs |-> IF p \in NeedGarbage(pb) THEN g[p] ELSE 0] : g \in [NeedGarbage(pb) -> GarbagePnum]}

\* ubi_device_init on flash <<bk, pb>>: [ret, bank, peb, free_pebs, dirty_pebs, bad_pebs,
\* global_seqnr, vols_seqnr, vols].  div0 is what ec_sum / ec_count yields when ec_count = 0.
ubi_device_init(bk, pb, garbage, div0) ==
    LET is_mounted == ubi_dev_is_mounted(bk)
        bk1 == IF is_mounted THEN bk ELSE ubi_dev_mount(bk)
        pb1 == IF is_mounted THEN pb ELSE FormatPebs(pb)
        dev == ubi_dev_hdr_read(bk1)
        cv == CollectVolumes(bk1, 0, dev.hdr.vol_count, <<>>, 0)
        seqnr == IF dev.hdr.vol_count > 0 THEN cv.vols_seqnr + 1 ELSE cv.vols_seqnr
        ec_avg == IF ec_count(pb1) = 0 THEN div0 ELSE ec_sum(pb1) \div ec_count(pb1)
        empty == [free_pebs |-> <<>>, dirty_pebs |-> <<>>, bad_pebs |-> <<>>,
                  global_seqnr |-> 0, vols |-> <<>>]
        st == ScanFrom(pb1, UBI_DEV_HDR_NR_OF_RES_PEBS, ec_avg, garbage, [empty EXCEPT !.vols = cv.vols])
        none(ret) == [ret |-> ret, out |-> -1, bank |-> bk1, peb |-> pb1, free_pebs |-> <<>>, dirty_pebs |-> <<>>,
                      bad_pebs |-> <<>>, global_seqnr |-> 0, vols_seqnr |-> 0, vols |-> <<>>]
    IN  IF dev.ret # OK THEN none(dev.ret)
        ELSE IF cv.ret # OK THEN none(cv.ret)
        ELSE IF ec_count(pb1) = 0 /\ div0 < 0 THEN none(FAULT)
        ELSE [ret |-> OK, out |-> -1, bank |-> bk1, peb |-> pb1, free_pebs |-> st.free_pebs,
              dirty_pebs |-> st.dirty_pebs, bad_pebs |-> st.bad_pebs,
              global_seqnr |-> st.global_seqnr, vols_seqnr |-> seqnr, vols |-> st.vols]

(***************************************************************************)
(* Device information (ubi_device_get_info).                               *)
(***************************************************************************)
\* the counters kept beside each collection
free_pebs_size(ubi) == Len(ubi.free_pebs)
dirty_pebs_size(ubi) == Len(ubi.dirty_pebs)
bad_pebs_size(ubi) == Len(ubi.bad_pebs)
vols_size(ubi) == Len(ubi.vols)

\* a ubi_device_get_info that counts no LEB as allocated
ubi_device_get_info_NoneAllocated(ubi) ==
    [allocated_leb_count |-> 0,
     free_leb_count |-> free_pebs_size(ubi),
     dirty_leb_count |-> dirty_pebs_size(ubi),
     bad_leb_count |-> bad_pebs_size(ubi),
     leb_total_count |-> NPeb - UBI_DEV_HDR_NR_OF_RES_PEBS,
     leb_size |-> LEB_MAX,
     volumes_count |-> vols_size(ubi)]

ubi_device_get_info(ubi) ==
    [allocated_leb_count |-> SumSeq([i \in DOMAIN ubi.vols |-> ubi.vols[i].vol.cfg.leb_count]),
     free_leb_count |-> free_pebs_size(ubi),
     dirty_leb_count |-> dirty_pebs_size(ubi),
     bad_leb_count |-> bad_pebs_size(ubi),
     leb_total_count |-> NPeb - UBI_DEV_HDR_NR_OF_RES_PEBS,
     leb_size |-> LEB_MAX,
     volumes_count |-> vols_size(ubi)]

(***************************************************************************)
(* LEB I/O (ubi.c).  Each operator yields the call's return code and the   *)
(* state the call leaves.                                                  *)
(***************************************************************************)
\* the device as the call found it, with the call's return code
Unchanged(ubi, ret) == [ubi EXCEPT !.ret = ret, !.out = -1]

\* the flash write of leb_write that the driver fails, if any
NoFault == 0
VidWriteFault == 4
DataWriteFault == 5

\* a leb_write that counts global_seqnr up before its checks and then reports -ENOSPC
leb_write_flash_SeqFirst(ubi, vol_id, lnum, buf, fault, landed) ==
    [Unchanged(ubi, ENOSPC) EXCEPT !.global_seqnr = ubi.global_seqnr + 1]

\* leb_write(ubi, vol_id, lnum, buf, len) with the driver failing the write fault
\* (or none, NoFault); landed tells whether the failed write reached the flash
\* all the same
leb_write_flash(ubi, vol_id, lnum, buf, fault, landed) ==
    LET vi == ubi_rbt_search(ubi.vols, vol_id)
        vol == ubi.vols[vi].vol
        ei == ubi_rbt_search(vol.eba_tbl, lnum)
        entry == vol.eba_tbl[ei]
        ec == ubi_ec_hdr_read(ubi.peb, entry.pnum)
        eba1 == IF ei # 0 THEN RemoveAt(vol.eba_tbl, ei) ELSE vol.eba_tbl
        dirty1 == IF ei # 0 THEN rb_insert(ubi.dirty_pebs, Item(ec.hdr.ec, entry.pnum)) ELSE ubi.dirty_pebs
        min_node == rb_get_min(ubi.free_pebs)
        vid_hdr == MakeVidHdr(lnum, vol.vol_id, ubi.global_seqnr, Len(buf))
        peb1 == [ubi.peb EXCEPT ![min_node.pnum].vid_hdr = vid_hdr]
        peb2 == IF Len(buf) > 0
                THEN [peb1 EXCEPT ![min_node.pnum].data = ubi_leb_data_write(@, buf)]
                ELSE peb1
    IN  IF vols_size(ubi) = 0 THEN Unchanged(ubi, ENOENT)
        ELSE IF vi = 0 THEN Unchanged(ubi, ENOENT)
        ELSE IF lnum > vol.cfg.leb_count THEN Unchanged(ubi, EACCES)
        ELSE IF free_pebs_size(ubi) = 0 THEN Unchanged(ubi, ENOSPC)
        ELSE IF Len(buf) > LEB_MAX THEN Unchanged(ubi, ENOSPC)
        ELSE IF ei # 0 /\ ec.ret # OK THEN Unchanged(ubi, ec.ret)
        \* goto exit after the old entry went to the dirty tree, min_node left the
        \* free tree and global_seqnr was counted up
        ELSE IF fault = VidWriteFault THEN
             [Unchanged(ubi, EIO) EXCEPT
                !.peb = IF landed THEN peb1 ELSE ubi.peb,
                !.free_pebs = Tail(ubi.free_pebs),
                !.dirty_pebs = dirty1,
                !.global_seqnr = ubi.global_seqnr + 1,
                !.vols = SetEba(ubi.vols, vi, eba1)]
        ELSE IF fault = DataWriteFault /\ Len(buf) > 0 THEN
             [Unchanged(ubi, EIO) EXCEPT
                !.peb = IF landed THEN peb2 ELSE peb1,
                !.free_pebs = Tail(ubi.free_pebs),
                !.dirty_pebs = dirty1,
                !.global_seqnr = ubi.global_seqnr + 1,
                !.vols = SetEba(ubi.vols, vi, eba1)]
        ELSE [Unchanged(ubi, OK) EXCEPT
                !.peb = peb2,
                !.free_pebs = Tail(ubi.free_pebs),
                !.dirty_pebs = dirty1,
                !.global_seqnr = ubi.global_seqnr + 1,
                !.vols = SetEba(ubi.vols, vi, rb_insert(eba1, Item(lnum, min_node.pnum)))]

\* leb_write(ubi, vol_id, lnum, buf, len); ubi_leb_map passes buf = NULL, len = 0 (here <<>>)
leb_write(ubi, vol_id, lnum, buf) == leb_write_flash(ubi, vol_id, lnum, buf, NoFault, TRUE)

\* ubi_leb_write: the argument checks before leb_write
ubi_leb_write(ubi, vol_id, lnum, buf) ==
    IF vol_id < 0 \/ Len(buf) = 0 THEN Unchanged(ubi, EINVAL) ELSE leb_write(ubi, vol_id, lnum, buf)

\* a ubi_leb_map that reports success and maps nothing
ubi_leb_map_Nothing(ubi, vol_id, lnum) == Unchanged(ubi, OK)

ubi_leb_map(ubi, vol_id, lnum) ==
    IF vol_id < 0 THEN Unchanged(ubi, EINVAL) ELSE leb_write(ubi, vol_id, lnum, <<>>)

ubi_leb_unmap(ubi, vol_id, lnum) ==
    LET vi == ubi_rbt_search(ubi.vols, vol_id)
        vol == ubi.vols[vi].vol
        ei == ubi_rbt_search(vol.eba_tbl, lnum)
        entry == vol.eba_tbl[ei]
        ec == ubi_ec_hdr_read(ubi.peb, entry.pnum)
    IN  IF vol_id < 0 THEN Unchanged(ubi, EINVAL)
        ELSE IF vols_size(ubi) = 0 THEN Unchanged(ubi, ENOENT)
        ELSE IF vi = 0 THEN Unchanged(ubi, ENOENT)
        ELSE IF lnum > vol.cfg.leb_count THEN Unchanged(ubi, EACCES)
        ELSE IF ei = 0 THEN Unchanged(ubi, EACCES)
        ELSE IF ec.ret # OK THEN Unchanged(ubi, ec.ret)
        ELSE [Unchanged(ubi, OK) EXCEPT
                !.dirty_pebs = rb_insert(ubi.dirty_pebs, Item(ec.hdr.ec, entry.pnum)),
                !.vols = SetEba(ubi.vols, vi, RemoveAt(vol.eba_tbl, ei))]

\* [ret, buf]
ubi_leb_read(ubi, vol_id, lnum, offset, size) ==
    LET vi == ubi_rbt_search(ubi.vols, vol_id)
        vol == ubi.vols[vi].vol
        ei == ubi_rbt_search(vol.eba_tbl, lnum)
    IN  IF vol_id < 0 \/ size = 0 THEN [ret |-> EINVAL, buf |-> <<>>]
        ELSE IF vols_size(ubi) = 0 THEN [ret |-> ENOENT, buf |-> <<>>]
        ELSE IF vi = 0 THEN [ret |-> ENOENT, buf |-> <<>>]
        ELSE IF lnum > vol.cfg.leb_count THEN [ret |-> EACCES, buf |-> <<>>]
        ELSE IF ei = 0 THEN [ret |-> ENOENT, buf |-> <<>>]
        ELSE ubi_leb_data_read(ubi.peb, vol.eba_tbl[ei].pnum, offset, size)

\* [ret, is_mapped]
ubi_leb_is_mapped(ubi, vol_id, lnum) ==
    LET vi == ubi_rbt_search(ubi.vols, vol_id)
        vol == ubi.vols[vi].vol
    IN  IF vol_id < 0 THEN [ret |-> EINVAL, is_mapped |-> FALSE]
        ELSE IF vols_size(ubi) = 0 THEN [ret |-> ENOENT, is_mapped |-> FALSE]
        ELSE IF vi = 0 THEN [ret |-> ENOENT, is_mapped |-> FALSE]
        ELSE IF lnum > vol.cfg.leb_count THEN [ret |-> EACCES, is_mapped |-> FALSE]
        ELSE [ret |-> OK, is_mapped |-> ubi_rbt_search(vol.eba_tbl, lnum) # 0]

\* ubi_leb_get_size reporting size 0 in place of an error
ubi_leb_get_size_Zero(ubi, vol_id, lnum) == [ret |-> OK, size |-> 0]

\* [ret, size]
ubi_leb_get_size(ubi, vol_id, lnum) ==
    LET vi == ubi_rbt_search(ubi.vols, vol_id)
        vol == ubi.vols[vi].vol
        ei == ubi_rbt_search(vol.eba_tbl, lnum)
        vid == ubi_vid_hdr_read(ubi.peb, vol.eba_tbl[ei].pnum, TRUE)
    IN  IF vol_id < 0 THEN [ret |-> EINVAL, size |-> 0]
        ELSE IF vols_size(ubi) = 0 THEN [ret |-> ENOENT, size |-> 0]
        ELSE IF vi = 0 THEN [ret |-> ENOENT, size |-> 0]
        ELSE IF lnum > vol.cfg.leb_count THEN [ret |-> EACCES, size |-> 0]
        ELSE IF ei = 0 THEN [ret |-> ENOENT, size |-> 0]
        ELSE IF vid.ret # OK THEN [ret |-> vid.ret, size |-> 0]
        ELSE [ret |-> OK, size |-> vid.hdr.data_size]

(***************************************************************************)
(* Maintenance: ubi_device_erase_peb.  freed is what the dirty tree's      *)
(* first node reads as after it was freed without being removed.  The      *)
(* erase is two flash operations, the erase and the write of the new EC    *)
(* header; steps is how many of them are carried out.                      *)
(***************************************************************************)
EraseSteps == 2

\* the flash operation of ubi_device_erase_peb that the driver fails, if any
EcReadFault == 1
EraseFault == 2
EcWriteFault == 3

\* a ubi_device_erase_peb that writes back the erase counter it read
ubi_device_erase_peb_SameEc(ubi, freed, steps, fault) ==
    LET entry == rb_get_min(ubi.dirty_pebs)
        ec == ubi_ec_hdr_read(ubi.peb, entry.pnum)
    IN  IF dirty_pebs_size(ubi) = 0 \/ ec.ret # OK THEN Unchanged(ubi, OK)
        ELSE [Unchanged(ubi, OK) EXCEPT
                !.peb = [ubi.peb EXCEPT ![entry.pnum] = [ErasedPeb EXCEPT !.ec_hdr = ec.hdr]],
                !.dirty_pebs = Tail(ubi.dirty_pebs),
                !.free_pebs = rb_insert(ubi.free_pebs, Item(ec.hdr.ec, entry.pnum))]

ubi_device_erase_peb(ubi, freed, steps, fault) ==
    LET entry == rb_get_min(ubi.dirty_pebs)
        ec == ubi_ec_hdr_read(ubi.peb, entry.pnum)
        new_ec == MakeEcHdr(ec.hdr.ec + 1)
        erased == [ubi.peb EXCEPT ![entry.pnum] = ErasedPeb]
        written == [erased EXCEPT ![entry.pnum].ec_hdr = new_ec]
        \* move_to_bad_blocks, k_free(entry), goto bad_blocks: the entry stays in the
        \* dirty tree and dirty_pebs_size as it was
        bad(pb) == [Unchanged(ubi, OK) EXCEPT
                        !.peb = pb,
                        !.bad_pebs = move_to_bad_blocks(ubi.bad_pebs, entry.pnum, entry.key),
                        !.dirty_pebs = <<Item(entry.key, freed)>> \o Tail(ubi.dirty_pebs)]
    IN  IF dirty_pebs_size(ubi) = 0 THEN Unchanged(ubi, OK)
        ELSE IF ec.ret # OK \/ fault = EcReadFault THEN bad(ubi.peb)
        ELSE IF fault = EraseFault THEN bad(ubi.peb)
        ELSE IF fault = EcWriteFault THEN bad(erased)
        ELSE [Unchanged(ubi, OK) EXCEPT
                !.peb = IF steps >= 2 THEN written ELSE IF steps >= 1 THEN erased ELSE ubi.peb,
                !.dirty_pebs = Tail(ubi.dirty_pebs),
                !.free_pebs = rb_insert(ubi.free_pebs, Item(new_ec.ec, entry.pnum))]

(***************************************************************************)
(* Dual-bank metadata, write side (ubi_utils.c).  A table rewrite is four  *)
(* flash operations: erase bank 0, write bank 0, erase bank 1, write bank  *)
(* 1; steps is how many of them are carried out (all of them unless power  *)
(* is lost on the way).                                                    *)
(***************************************************************************)
AllSteps == 4

BankRewrite(bk, new_bank, steps) ==
    [b \in DOMAIN bk |->
        IF b = UBI_DEV_HDR_RES_PEB_0
        THEN IF steps >= 2 THEN new_bank ELSE IF steps >= 1 THEN ErasedBank ELSE bk[b]
        ELSE IF steps >= 4 THEN new_bank ELSE IF steps >= 3 THEN ErasedBank ELSE bk[b]]

\* the first count entries of bank 0 as flash_area_read returns them
RawEntries(bk, count) == [i \in 1..count |-> VolEntry(bk[UBI_DEV_HDR_RES_PEB_0], i - 1)]

\* uint32_t vol_count - 1; 0 - 1 wraps to the largest value (here the largest number there is)
UINT32_MAX == 2147483647
U32Dec(n) == IF n = 0 THEN UINT32_MAX ELSE n - 1

\* ubi_vol_hdr_append without its limit on the number of volumes
ubi_vol_hdr_append_NoLimit(bk, dev_hdr, vol_hdr, steps) ==
    LET h1 == bk[UBI_DEV_HDR_RES_PEB_0].dev_hdr
        h2 == bk[UBI_DEV_HDR_RES_PEB_1].dev_hdr
        buf == [dev_hdr |-> dev_hdr, vol_hdrs |-> Append(RawEntries(bk, h1.vol_count), vol_hdr)]
    IN  IF ~(DevHdrValid(h1) /\ DevHdrValid(h2)) THEN [ret |-> EACCES, bank |-> bk]
        ELSE IF h1.revision # h2.revision THEN [ret |-> EBADMSG, bank |-> bk]
        ELSE IF h1 # h2 THEN [ret |-> EBADMSG, bank |-> bk]
        ELSE IF h1.vol_count + 1 # dev_hdr.vol_count THEN [ret |-> EACCES, bank |-> bk]
        ELSE [ret |-> OK, bank |-> BankRewrite(bk, buf, steps)]

\* [ret, bank]
ubi_vol_hdr_append(bk, dev_hdr, vol_hdr, steps) ==
    LET h1 == bk[UBI_DEV_HDR_RES_PEB_0].dev_hdr
        h2 == bk[UBI_DEV_HDR_RES_PEB_1].dev_hdr
        buf == [dev_hdr |-> dev_hdr, vol_hdrs |-> Append(RawEntries(bk, h1.vol_count), vol_hdr)]
    IN  IF ~(DevHdrValid(h1) /\ DevHdrValid(h2)) THEN [ret |-> EACCES, bank |-> bk]
        ELSE IF h1.revision # h2.revision THEN [ret |-> EBADMSG, bank |-> bk]
        ELSE IF h1 # h2 THEN [ret |-> EBADMSG, bank |-> bk]
        ELSE IF h1.vol_count >= CONFIG_UBI_MAX_NR_OF_VOLUMES THEN [ret |-> ENOSPC, bank |-> bk]
        ELSE IF h1.vol_count + 1 # dev_hdr.vol_count THEN [ret |-> EACCES, bank |-> bk]
        ELSE [ret |-> OK, bank |-> BankRewrite(bk, buf, steps)]

\* the entries kept by remove/update, each read back through ubi_vol_hdr_read: [ret, hdrs]
RECURSIVE CopyEntries(_, _, _, _, _, _)
CopyEntries(bk, vol_idx, count, index, subst, acc) ==
    IF vol_idx >= count THEN [ret |-> OK, hdrs |-> acc]
    ELSE IF vol_idx = index
    THEN CopyEntries(bk, vol_idx + 1, count, index, subst, acc \o subst)
    ELSE LET r == ubi_vol_hdr_read(bk, vol_idx)
         IN  IF r.ret # OK THEN [ret |-> r.ret, hdrs |-> acc]
             ELSE CopyEntries(bk, vol_idx + 1, count, index, subst, Append(acc, r.hdr))

\* [ret, bank]
ubi_vol_hdr_remove(bk, dev_hdr, index, steps) ==
    LET h1 == bk[UBI_DEV_HDR_RES_PEB_0].dev_hdr
        h2 == bk[UBI_DEV_HDR_RES_PEB_1].dev_hdr
        kept == CopyEntries(bk, 0, h1.vol_count, index, <<>>, <<>>)
    IN  IF ~(DevHdrValid(h1) /\ DevHdrValid(h2)) THEN [ret |-> EACCES, bank |-> bk]
        ELSE IF h1.revision # h2.revision THEN [ret |-> EBADMSG, bank |-> bk]
        ELSE IF h1 # h2 THEN [ret |-> EBADMSG, bank |-> bk]
        ELSE IF h1.vol_count >= CONFIG_UBI_MAX_NR_OF_VOLUMES THEN [ret |-> ENOSPC, bank |-> bk]
        ELSE IF index > U32Dec(h1.vol_count) THEN [ret |-> EACCES, bank |-> bk]
        ELSE IF h1.revision + 1 # dev_hdr.revision THEN [ret |-> EACCES, bank |-> bk]
        ELSE IF U32Dec(h1.vol_count) # dev_hdr.vol_count THEN [ret |-> EACCES, bank |-> bk]
        ELSE IF dev_hdr.vol_count = UINT32_MAX THEN [ret |-> ENOMEM, bank |-> bk]
        ELSE IF kept.ret # OK THEN [ret |-> kept.ret, bank |-> bk]
        ELSE [ret |-> OK,
              bank |-> BankRewrite(bk, [dev_hdr |-> dev_hdr, vol_hdrs |-> kept.hdrs], steps)]

\* [ret, bank]
ubi_vol_hdr_update(bk, dev_hdr, index, vol_hdr, steps) ==
    LET h1 == bk[UBI_DEV_HDR_RES_PEB_0].dev_hdr
        h2 == bk[UBI_DEV_HDR_RES_PEB_1].dev_hdr
        kept == CopyEntries(bk, 0, h1.vol_count, index, <<vol_hdr>>, <<>>)
    IN  IF ~(DevHdrValid(h1) /\ DevHdrValid(h2)) THEN [ret |-> EACCES, bank |-> bk]
        ELSE IF h1.revision # h2.revision THEN [ret |-> EBADMSG, bank |-> bk]
        ELSE IF h1 # h2 THEN [ret |-> EBADMSG, bank |-> bk]
        ELSE IF h1.vol_count >= CONFIG_UBI_MAX_NR_OF_VOLUMES THEN [ret |-> ENOSPC, bank |-> bk]
        ELSE IF index > U32Dec(h1.vol_count) THEN [ret |-> EACCES, bank |-> bk]
        ELSE IF h1.revision + 1 # dev_hdr.revision THEN [ret |-> EACCES, bank |-> bk]
        ELSE IF kept.ret # OK THEN [ret |-> kept.ret, bank |-> bk]
        ELSE IF Len(kept.hdrs) # h1.vol_count THEN [ret |-> EACCES, bank |-> bk]
        ELSE [ret |-> OK,
              bank |-> BankRewrite(bk, [dev_hdr |-> dev_hdr, vol_hdrs |-> kept.hdrs], steps)]

(***************************************************************************)
(* Volume management (ubi.c).                                              *)
(***************************************************************************)
SetVolIdx(vs, i, idx) == [vs EXCEPT ![i].vol.vol_idx = idx]
SetLebCount(vs, i, leb_count) == [vs EXCEPT ![i].vol.cfg.leb_count = leb_count]

\* strnlen of both names equal and memcmp over that length

\* a name comparison that finds no two names equal
SameName_Never(a, b) == FALSE

SameName(a, b) ==
    /\ strnlen_name(a) = strnlen_name(b)
    /\ \A i \in 1..strnlen_name(a) : a[i] = b[i]

ubi_volume_create(ubi, vol_cfg, steps) ==
    LET exist == {i \in DOMAIN ubi.vols : SameName(vol_cfg.name, ubi.vols[i].vol.cfg.name)}
        first == CHOOSE i \in exist : \A j \in exist : i <= j
        info == ubi_device_get_info(ubi)
        total_free_pebs == info.leb_total_count - info.allocated_leb_count
        dev == ubi_dev_hdr_read(ubi.bank)
        new_dev_hdr == MakeDevHdr(dev.hdr.revision + 1, dev.hdr.vol_count + 1)
        new_vol_hdr == MakeVolHdr(vol_cfg.type, ubi.vols_seqnr, vol_cfg.leb_count, vol_cfg.name)
        app == ubi_vol_hdr_append(ubi.bank, new_dev_hdr, new_vol_hdr, steps)
        vol == MakeVolume(new_dev_hdr.vol_count - 1, new_vol_hdr)
    IN  IF exist # {} THEN [Unchanged(ubi, OK) EXCEPT !.out = ubi.vols[first].vol.vol_id]
        ELSE IF vol_cfg.leb_count > total_free_pebs THEN Unchanged(ubi, ENOSPC)
        ELSE IF dev.ret # OK THEN Unchanged(ubi, dev.ret)
        ELSE IF app.ret # OK THEN [Unchanged(ubi, app.ret) EXCEPT !.vols_seqnr = ubi.vols_seqnr + 1]
        ELSE [Unchanged(ubi, OK) EXCEPT
                !.bank = app.bank,
                !.vols_seqnr = ubi.vols_seqnr + 1,
                !.vols = rb_insert(ubi.vols, VolItem(vol)),
                !.out = vol.vol_id]

\* the shrink loop of ubi_volume_resize: [ret, eba, dirty]
RECURSIVE ShrinkLoop(_, _, _, _, _)
ShrinkLoop(eba, dirty, pb, lnum, leb_count) ==
    IF lnum >= leb_count THEN [ret |-> OK, eba |-> eba, dirty |-> dirty]
    ELSE LET ei == ubi_rbt_search(eba, lnum)
             ec == ubi_ec_hdr_read(pb, eba[ei].pnum)
         IN  IF ei = 0 THEN ShrinkLoop(eba, dirty, pb, lnum + 1, leb_count)
             ELSE IF ec.ret # OK THEN [ret |-> ec.ret, eba |-> RemoveAt(eba, ei), dirty |-> dirty]
             ELSE ShrinkLoop(RemoveAt(eba, ei), rb_insert(dirty, Item(ec.hdr.ec, eba[ei].pnum)),
                             pb, lnum + 1, leb_count)

ubi_volume_resize(ubi, vol_id, vol_cfg, steps) ==
    LET vi == ubi_rbt_search(ubi.vols, vol_id)
        vol == ubi.vols[vi].vol
        grow == vol_cfg.leb_count > vol.cfg.leb_count
        info == ubi_device_get_info(ubi)
        avail == info.leb_total_count - info.allocated_leb_count
        loop == IF grow THEN [ret |-> OK, eba |-> vol.eba_tbl, dirty |-> ubi.dirty_pebs]
                ELSE ShrinkLoop(vol.eba_tbl, ubi.dirty_pebs, ubi.peb, vol_cfg.leb_count, vol.cfg.leb_count)
        moved == [Unchanged(ubi, OK) EXCEPT !.dirty_pebs = loop.dirty, !.vols = SetEba(ubi.vols, vi, loop.eba)]
        dev == ubi_dev_hdr_read(ubi.bank)
        dev_hdr == MakeDevHdr(dev.hdr.revision + 1, dev.hdr.vol_count)
        vh == ubi_vol_hdr_read(ubi.bank, vol.vol_idx)
        vol_hdr == [vh.hdr EXCEPT !.lebs_count = vol_cfg.leb_count, !.crc_ok = TRUE]
        upd == ubi_vol_hdr_update(ubi.bank, dev_hdr, vol.vol_idx, vol_hdr, steps)
    IN  IF vols_size(ubi) = 0 THEN Unchanged(ubi, ENOENT)
        ELSE IF vi = 0 THEN Unchanged(ubi, ENOENT)
        ELSE IF vol.cfg.type # UBI_VOLUME_TYPE_DYNAMIC THEN Unchanged(ubi, ECANCELED)
        ELSE IF vol_cfg.leb_count = vol.cfg.leb_count THEN Unchanged(ubi, ECANCELED)
        ELSE IF grow /\ vol_cfg.leb_count - vol.cfg.leb_count > avail THEN Unchanged(ubi, ENOSPC)
        ELSE IF loop.ret # OK THEN [moved EXCEPT !.ret = loop.ret]
        ELSE IF dev.ret # OK THEN [moved EXCEPT !.ret = dev.ret]
        ELSE IF vh.ret # OK THEN [moved EXCEPT !.ret = vh.ret]
        ELSE IF upd.ret # OK THEN [moved EXCEPT !.ret = upd.ret]
        ELSE [moved EXCEPT
                !.bank = upd.bank,
                !.vols = SetLebCount(SetEba(ubi.vols, vi, loop.eba), vi, vol_cfg.leb_count)]

\* the EBA loop of ubi_volume_remove over the items the traversal visits: [ret, eba, dirty]
RECURSIVE ReleaseLoop(_, _, _, _)
ReleaseLoop(eba, dirty, pb, visit) ==
    IF visit = <<>> THEN [ret |-> OK, eba |-> eba, dirty |-> dirty]
    ELSE LET item == Head(visit)
             ei == CHOOSE i \in DOMAIN eba : eba[i] = item
             ec == ubi_ec_hdr_read(pb, item.pnum)
         IN  IF ec.ret # OK THEN [ret |-> ec.ret, eba |-> RemoveAt(eba, ei), dirty |-> dirty]
             ELSE ReleaseLoop(RemoveAt(eba, ei), rb_insert(dirty, Item(ec.hdr.ec, item.pnum)),
                              pb, Tail(visit))

\* ubi_volume_remove without its renumbering loop
Renumber_None(bk, vs, vol_idx, vol_count) == [ret |-> OK, vols |-> vs]

\* the renumbering loop of ubi_volume_remove: [ret, vols]
RECURSIVE Renumber(_, _, _, _)
Renumber(bk, vs, vol_idx, vol_count) ==
    IF vol_idx >= vol_count THEN [ret |-> OK, vols |-> vs]
    ELSE LET vh == ubi_vol_hdr_read(bk, vol_idx)
             vi == ubi_rbt_search(vs, vh.hdr.vol_id)
         IN  IF vh.ret # OK THEN [ret |-> vh.ret, vols |-> vs]
             ELSE IF vi = 0 THEN [ret |-> EIO, vols |-> vs]
             ELSE Renumber(bk, SetVolIdx(vs, vi, vol_idx), vol_idx + 1, vol_count)

\* RB_FOR_EACH_CONTAINER over a tree that the loop body modifies: the first
\* node is always visited, which of the others are is not defined
VisitChoices(eba) ==
    {v \in SUBSET (DOMAIN eba) : eba # <<>> => 1 \in v}

VisitSeq(eba, v) ==
    LET RECURSIVE Pick(_)
        Pick(i) == IF i > Len(eba) THEN <<>>
                   ELSE IF i \in v THEN <<eba[i]>> \o Pick(i + 1) ELSE Pick(i + 1)
    IN  Pick(1)

ubi_volume_remove(ubi, vol_id, visit, steps) ==
    LET vi == ubi_rbt_search(ubi.vols, vol_id)
        vol == ubi.vols[vi].vol
        dev == ubi_dev_hdr_read(ubi.bank)
        dev_hdr == MakeDevHdr(dev.hdr.revision + 1, U32Dec(dev.hdr.vol_count))
        rem == ubi_vol_hdr_remove(ubi.bank, dev_hdr, vol.vol_idx, steps)
        loop == ReleaseLoop(vol.eba_tbl, ubi.dirty_pebs, ubi.peb, VisitSeq(vol.eba_tbl, visit))
        ren == Renumber(rem.bank, RemoveAt(ubi.vols, vi), 0, dev_hdr.vol_count)
    IN  IF vols_size(ubi) = 0 THEN Unchanged(ubi, ENOENT)
        ELSE IF vi = 0 THEN Unchanged(ubi, ENOENT)
        ELSE IF dev.ret # OK THEN Unchanged(ubi, dev.ret)
        ELSE IF rem.ret # OK THEN Unchanged(ubi, rem.ret)
        ELSE IF loop.ret # OK
        THEN [Unchanged(ubi, loop.ret) EXCEPT
                !.bank = rem.bank, !.dirty_pebs = loop.dirty, !.vols = SetEba(ubi.vols, vi, loop.eba)]
        ELSE [Unchanged(ubi, ren.ret) EXCEPT
                !.bank = rem.bank, !.dirty_pebs = loop.dirty, !.vols = ren.vols]

\* [ret, cfg, alloc_lebs]
ubi_volume_get_info(ubi, vol_id) ==
    LET vi == ubi_rbt_search(ubi.vols, vol_id)
        vol == ubi.vols[vi].vol
        none == [name |-> ZeroName, type |-> 0, leb_count |-> 0]
    IN  IF vol_id < 0 THEN [ret |-> EINVAL, cfg |-> none, alloc_lebs |-> 0]
        ELSE IF vi = 0 THEN [ret |-> ENOENT, cfg |-> none, alloc_lebs |-> 0]
        ELSE [ret |-> OK, cfg |-> vol.cfg, alloc_lebs |-> Len(vol.eba_tbl)]

(***************************************************************************)
(* The state machine.  The partition starts blank and no device is         *)
(* attached; every call of the public API is one action.                   *)
(***************************************************************************)
VolIds == 0..MaxVolId
Lnums == 0..MaxLebCount
LebCounts == 0..MaxLebCount
VolTypes == {UBI_VOLUME_TYPE_STATIC, UBI_VOLUME_TYPE_DYNAMIC}
\* a name as a C initialiser leaves it: the characters, then NULs
Name(chars) == [i \in 1..UBI_VOLUME_NAME_MAX_LEN |-> IF i <= Len(chars) THEN chars[i] ELSE 0]
Names == {Name(<<97>>), Name(<<97, 98>>), Name(<<98>>)}
Configs == [name : Names, type : VolTypes, leb_count : LebCounts]
Payloads == {Fill(WRITE_BLOCK_SIZE_ALIGNMENT, 1), Fill(WRITE_BLOCK_SIZE_ALIGNMENT + 1, 2)}

NoCfg == [name |-> ZeroName, type |-> -1, leb_count |-> -1]
NoCrash == [op |-> "none", pre |-> <<>>, post |-> <<>>]
NoHist == [written |-> [v \in VolIds |-> [l \in Lnums |-> <<>>]],
           cfg |-> [v \in VolIds |-> NoCfg],
           crash |-> NoCrash,
           cycle |-> [k |-> 0, phase |-> "idle"]]

\* the threads that call into the device
Threads == 1..NThreads
\* k_mutex_init: nobody owns the mutex (owner 0, lock count 0); every thread is
\* outside of any call
NoThreads == [owner |-> 0, count |-> 0,
              pc |-> [t \in Threads |-> "idle"],
              call |-> [t \in Threads |-> [op |-> "none", vol_id |-> -1, lnum |-> -1]],
              snap |-> [t \in Threads |-> [ret |-> "none"]]]

\* the device the calls work on
Dev ==
    [ret |-> OK, out |-> -1, bank |-> bank, peb |-> peb, free_pebs |-> free_pebs,
     dirty_pebs |-> dirty_pebs, bad_pebs |-> bad_pebs, global_seqnr |-> global_seqnr,
     vols_seqnr |-> vols_seqnr, vols |-> vols]

Init ==
    /\ bank = [b \in {UBI_DEV_HDR_RES_PEB_0, UBI_DEV_HDR_RES_PEB_1} |-> ErasedBank]
    /\ peb = [p \in UsablePebs |-> ErasedPeb]
    /\ mounted = FALSE
    /\ free_pebs = <<>>
    /\ dirty_pebs = <<>>
    /\ bad_pebs = <<>>
    /\ global_seqnr = 0
    /\ vols_seqnr = 0
    /\ vols = <<>>
    /\ thr = NoThreads
    /\ hist = NoHist

\* the device a call leaves
Store(r) ==
    /\ bank' = r.bank
    /\ peb' = r.peb
    /\ free_pebs' = r.free_pebs
    /\ dirty_pebs' = r.dirty_pebs
    /\ bad_pebs' = r.bad_pebs
    /\ global_seqnr' = r.global_seqnr
    /\ vols_seqnr' = r.vols_seqnr
    /\ vols' = r.vols

\* the state a call leaves when no other thread is about: the call took the
\* mutex and gave it back
Apply(r) == Store(r) /\ thr' = thr

\* the data PEBs as the scan finds them
Scanned(bk, pb) == IF ubi_dev_is_mounted(bk) THEN pb ELSE FormatPebs(pb)

\* what the quotient ec_sum / ec_count can be when no EC header is valid: the
\* program stops (-1), or the division yields some number
Div0Choices(bk, pb) == IF ec_count(Scanned(bk, pb)) = 0 THEN {-1, 0, MaxEc} ELSE {0}

DeviceInit ==
    /\ ~mounted
    /\ \E garbage \in GarbageChoices(Scanned(bank, peb)), div0 \in Div0Choices(bank, peb) :
        LET r == ubi_device_init(bank, peb, garbage, div0)
        IN  /\ Apply(r)
            /\ mounted' = (r.ret = OK)
    /\ hist' = [hist EXCEPT !.crash = NoCrash]

DeviceDeinit ==
    /\ mounted
    /\ mounted' = FALSE
    /\ free_pebs' = <<>>
    /\ dirty_pebs' = <<>>
    /\ bad_pebs' = <<>>
    /\ global_seqnr' = 0
    /\ vols_seqnr' = 0
    /\ vols' = <<>>
    /\ UNCHANGED <<bank, peb, thr, hist>>

Revision == bank[UBI_DEV_HDR_RES_PEB_0].dev_hdr.revision

\* history: the LEBs of a volume from lnum on hold no written payload any more
Forget(h, vol_id, from) ==
    [h EXCEPT !.written[vol_id] = [l \in Lnums |-> IF l >= from THEN <<>> ELSE @[l]]]

LebWrite(payloads) ==
    /\ mounted
    /\ global_seqnr < MaxSeq
    /\ \E vol_id \in VolIds, lnum \in Lnums, buf \in payloads :
        LET r == ubi_leb_write(Dev, vol_id, lnum, buf)
        IN  /\ Apply(r)
            /\ hist' = IF r.ret = OK THEN [hist EXCEPT !.written[vol_id][lnum] = buf] ELSE hist
    /\ UNCHANGED mounted

LebMap ==
    /\ mounted
    /\ global_seqnr < MaxSeq
    /\ \E vol_id \in VolIds, lnum \in Lnums :
        LET r == ubi_leb_map(Dev, vol_id, lnum)
        IN  /\ Apply(r)
            /\ hist' = IF r.ret = OK THEN [hist EXCEPT !.written[vol_id][lnum] = <<>>] ELSE hist
    /\ UNCHANGED mounted

LebUnmap ==
    /\ mounted
    /\ \E vol_id \in VolIds, lnum \in Lnums :
        LET r == ubi_leb_unmap(Dev, vol_id, lnum)
        IN  /\ Apply(r)
            /\ hist' = IF r.ret = OK THEN [hist EXCEPT !.written[vol_id][lnum] = <<>>] ELSE hist
    /\ UNCHANGED mounted

\* what the freed first node of the dirty tree reads as afterwards
FreedChoices(fault) ==
    IF dirty_pebs # <<>>
       /\ (fault # NoFault \/ ubi_ec_hdr_read(peb, rb_get_min(dirty_pebs).pnum).ret # OK)
    THEN GarbagePnum
    ELSE {0}

ErasePeb ==
    /\ mounted
    /\ Len(bad_pebs) < MaxBad
    /\ \A p \in UsablePebs : EcHdrValid(peb[p].ec_hdr) => peb[p].ec_hdr.ec < MaxEc
    /\ \E freed \in FreedChoices(NoFault) :
        Apply(ubi_device_erase_peb(Dev, freed, EraseSteps, NoFault))
    /\ UNCHANGED <<mounted, hist>>

VolumeCreate(configs) ==
    /\ mounted
    /\ Revision < MaxRev
    /\ vols_seqnr <= MaxVolId
    /\ \E vol_cfg \in configs :
        LET r == ubi_volume_create(Dev, vol_cfg, AllSteps)
        IN  /\ Apply(r)
            /\ hist' = IF r.ret = OK /\ r.vols # vols
                       THEN [Forget(hist, r.out, 0) EXCEPT !.cfg[r.out] = vol_cfg]
                       ELSE hist
    /\ UNCHANGED mounted

VolumeResize ==
    /\ mounted
    /\ Revision < MaxRev
    /\ \E vol_id \in VolIds, leb_count \in LebCounts :
        LET vol_cfg == [name |-> ZeroName, type |-> UBI_VOLUME_TYPE_STATIC, leb_count |-> leb_count]
            r == ubi_volume_resize(Dev, vol_id, vol_cfg, AllSteps)
        IN  /\ Apply(r)
            /\ hist' = IF r.ret = OK
                       THEN [Forget(hist, vol_id, leb_count) EXCEPT !.cfg[vol_id].leb_count = leb_count]
                       ELSE IF r.vols # vols THEN Forget(hist, vol_id, leb_count)
                       ELSE hist
    /\ UNCHANGED mounted

VisitOf(vol_id) ==
    LET vi == ubi_rbt_search(vols, vol_id)
    IN  IF vi = 0 THEN {{}} ELSE VisitChoices(vols[vi].vol.eba_tbl)

VolumeRemove ==
    /\ mounted
    /\ Revision < MaxRev
    /\ \E vol_id \in VolIds :
        \E visit \in VisitOf(vol_id) :
            LET r == ubi_volume_remove(Dev, vol_id, visit, AllSteps)
            IN  /\ Apply(r)
                /\ hist' = IF r.bank # bank
                           THEN [Forget(hist, vol_id, 0) EXCEPT !.cfg[vol_id] = NoCfg]
                           ELSE hist
    /\ UNCHANGED mounted

Next ==
    \/ DeviceInit
    \/ DeviceDeinit
    \/ LebWrite(Payloads)
    \/ LebMap
    \/ LebUnmap
    \/ ErasePeb
    \/ VolumeCreate(Configs)
    \/ VolumeResize
    \/ VolumeRemove

Spec == Init /\ [][Next]_vars

(***************************************************************************)
(* LEB I/O on one volume: the device, one dynamic volume, and the LEB and  *)
(* maintenance calls.                                                      *)
(***************************************************************************)
OneVolume == {[name |-> Name(<<97>>), type |-> UBI_VOLUME_TYPE_DYNAMIC, leb_count |-> MaxLebCount]}

NextLeb ==
    \/ DeviceInit
    \/ DeviceDeinit
    \/ VolumeCreate(OneVolume)
    \/ LebWrite(Payloads)
    \/ LebMap
    \/ LebUnmap
    \/ ErasePeb

SpecLeb == Init /\ [][NextLeb]_vars

(***************************************************************************)
(* Volume management: the device and the volume calls, over volumes of     *)
(* both types; one name has a byte behind its terminating NUL, and the    *)
(* last configuration has the name of the first.                           *)
(***************************************************************************)
VolConfigs ==
    {[name |-> Name(<<97>>), type |-> UBI_VOLUME_TYPE_DYNAMIC, leb_count |-> 1],
     [name |-> Name(<<97, 98>>), type |-> UBI_VOLUME_TYPE_STATIC, leb_count |-> 1],
     [name |-> Name(<<98, 0, 99>>), type |-> UBI_VOLUME_TYPE_DYNAMIC, leb_count |-> 0],
     [name |-> Name(<<97>>), type |-> UBI_VOLUME_TYPE_STATIC, leb_count |-> 0],
     [name |-> Name(<<99>>), type |-> UBI_VOLUME_TYPE_STATIC, leb_count |-> 0]}

NextVol ==
    \/ DeviceInit
    \/ DeviceDeinit
    \/ VolumeCreate(VolConfigs)
    \/ VolumeResize
    \/ VolumeRemove

SpecVol == Init /\ [][NextVol]_vars

(***************************************************************************)
(* Power loss.  A call is cut short after some of its flash operations;    *)
(* the media keeps what they did and the device in RAM is gone.            *)
(***************************************************************************)
PowerLoss(r, op, post) ==
    /\ bank' = r.bank
    /\ peb' = r.peb
    /\ mounted' = FALSE
    /\ free_pebs' = <<>>
    /\ dirty_pebs' = <<>>
    /\ bad_pebs' = <<>>
    /\ global_seqnr' = 0
    /\ vols_seqnr' = 0
    /\ vols' = <<>>
    /\ thr' = thr
    /\ hist' = [hist EXCEPT !.crash = [op |-> op, pre |-> bank, post |-> post]]

CrashInCreate(configs) ==
    /\ mounted
    /\ Revision < MaxRev
    /\ vols_seqnr <= MaxVolId
    /\ \E vol_cfg \in configs, steps \in 0..AllSteps :
        LET full == ubi_volume_create(Dev, vol_cfg, AllSteps)
        IN  /\ full.ret = OK
            /\ full.bank # bank
            /\ PowerLoss(ubi_volume_create(Dev, vol_cfg, steps), "create", full.bank)

CrashInResize ==
    /\ mounted
    /\ Revision < MaxRev
    /\ \E vol_id \in VolIds, leb_count \in LebCounts, steps \in 0..AllSteps :
        LET vol_cfg == [name |-> ZeroName, type |-> UBI_VOLUME_TYPE_STATIC, leb_count |-> leb_count]
            full == ubi_volume_resize(Dev, vol_id, vol_cfg, AllSteps)
        IN  /\ full.ret = OK
            /\ PowerLoss(ubi_volume_resize(Dev, vol_id, vol_cfg, steps), "resize", full.bank)

CrashInRemove ==
    /\ mounted
    /\ Revision < MaxRev
    /\ \E vol_id \in VolIds, steps \in 0..AllSteps :
        \E visit \in VisitOf(vol_id) :
            LET full == ubi_volume_remove(Dev, vol_id, visit, AllSteps)
            IN  /\ full.bank # bank
                /\ PowerLoss(ubi_volume_remove(Dev, vol_id, visit, steps), "remove", full.bank)

CrashInErase ==
    /\ mounted
    /\ \A p \in UsablePebs : EcHdrValid(peb[p].ec_hdr) => peb[p].ec_hdr.ec < MaxEc
    /\ dirty_pebs # <<>>
    /\ ubi_ec_hdr_read(peb, rb_get_min(dirty_pebs).pnum).ret = OK
    /\ \E steps \in 0..EraseSteps :
        PowerLoss(ubi_device_erase_peb(Dev, 0, steps, NoFault), "erase", bank)

OnePayload == {Fill(WRITE_BLOCK_SIZE_ALIGNMENT, 1)}

\* the volume table may still be rewritten in the runs with power loss
TableBudget == Revision < MaxCrashRev /\ vols_seqnr < MaxCrashRev

NextCrash ==
    \/ DeviceInit
    \/ DeviceDeinit
    \/ TableBudget /\ VolumeCreate(OneVolume)
    \/ LebWrite(OnePayload)
    \/ ErasePeb
    \/ TableBudget /\ CrashInCreate(OneVolume)
    \/ TableBudget /\ CrashInResize
    \/ TableBudget /\ CrashInRemove
    \/ CrashInErase

SpecCrash == Init /\ [][NextCrash]_vars

(***************************************************************************)
(* Wear cycles: on a device whose volumes cover every usable PEB, every    *)
(* LEB is mapped or written, then every LEB is unmapped and the dirty pool *)
(* erased, over and over; the device is detached and attached between      *)
(* cycles.  hist.cycle counts the completed cycles.                        *)
(***************************************************************************)
CycleVolumes ==
    {[name |-> Name(<<97>>), type |-> UBI_VOLUME_TYPE_DYNAMIC, leb_count |-> 1],
     [name |-> Name(<<98>>), type |-> UBI_VOLUME_TYPE_STATIC,
      leb_count |-> NPeb - UBI_DEV_HDR_NR_OF_RES_PEBS - 1],
     [name |-> Name(<<97, 98>>), type |-> UBI_VOLUME_TYPE_DYNAMIC,
      leb_count |-> NPeb - UBI_DEV_HDR_NR_OF_RES_PEBS]}

\* the volumes cover every usable PEB
Covered(ubi) ==
    ubi_device_get_info(ubi).allocated_leb_count = ubi_device_get_info(ubi).leb_total_count

\* the LEBs of the volumes: <<vol_id, lnum>> with lnum < leb_count
AllLebs(ubi) ==
    {x \in VolIds \X (0..(NPeb - 1)) :
        \E i \in DOMAIN ubi.vols : ubi.vols[i].vol.vol_id = x[1] /\ x[2] < ubi.vols[i].vol.cfg.leb_count}

MappedOf(ubi) == {x \in AllLebs(ubi) : ubi_leb_is_mapped(ubi, x[1], x[2]).is_mapped}

AtBoundary == hist.cycle.phase = "idle"

CycleSetup == AtBoundary /\ hist.cycle.k = 0 /\ mounted /\ ~Covered(Dev) /\ VolumeCreate(CycleVolumes)

CycleFill ==
    /\ mounted
    /\ Covered(Dev)
    /\ hist.cycle.phase \in {"idle", "fill"}
    /\ hist.cycle.k < MaxEc
    /\ \E x \in AllLebs(Dev) \ MappedOf(Dev), buf \in {<<>>} \cup OnePayload :
        LET r == IF buf = <<>> THEN ubi_leb_map(Dev, x[1], x[2]) ELSE ubi_leb_write(Dev, x[1], x[2], buf)
        IN  /\ r.ret = OK
            /\ Apply(r)
            /\ hist' = [hist EXCEPT !.cycle.phase = IF MappedOf(r) = AllLebs(r) THEN "drain" ELSE "fill"]
    /\ UNCHANGED mounted

CycleUnmap ==
    /\ mounted
    /\ hist.cycle.phase = "drain"
    /\ \E x \in MappedOf(Dev) :
        LET r == ubi_leb_unmap(Dev, x[1], x[2])
        IN  r.ret = OK /\ Apply(r)
    /\ UNCHANGED <<mounted, hist>>

CycleErase ==
    /\ mounted
    /\ hist.cycle.phase = "drain"
    /\ dirty_pebs # <<>>
    /\ \E freed \in FreedChoices(NoFault) :
        LET r == ubi_device_erase_peb(Dev, freed, EraseSteps, NoFault)
        IN  /\ Apply(r)
            /\ hist' = IF r.dirty_pebs = <<>> /\ MappedOf(r) = {}
                       THEN [hist EXCEPT !.cycle = [k |-> @.k + 1, phase |-> "idle"]]
                       ELSE hist
    /\ UNCHANGED mounted

NextCycle ==
    \/ AtBoundary /\ DeviceInit
    \/ AtBoundary /\ DeviceDeinit
    \/ CycleSetup
    \/ CycleFill
    \/ CycleUnmap
    \/ CycleErase

SpecCycle == Init /\ [][NextCycle]_vars

(***************************************************************************)
(* Threads.  A call blocks in k_mutex_lock until the mutex is free or the  *)
(* caller's own (k_mutex counts the locks of its owner), reads the device, *)
(* works, writes the device back and unlocks.  ubi_device_deinit takes no  *)
(* lock.  thr.snap is the device as a thread read it after locking.        *)
(***************************************************************************)
ThreadCalls ==
    {[op |-> op, vol_id |-> 0, lnum |-> l] : op \in {"map", "write", "unmap"}, l \in 0..1}
    \cup {[op |-> "erase", vol_id |-> -1, lnum |-> -1], [op |-> "create", vol_id |-> -1, lnum |-> -1]}

\* the call a thread is in, on the device it read
CallOp(c, ubi, freed) ==
    CASE c.op = "map" -> ubi_leb_map(ubi, c.vol_id, c.lnum)
      [] c.op = "write" -> ubi_leb_write(ubi, c.vol_id, c.lnum, Fill(WRITE_BLOCK_SIZE_ALIGNMENT, 1))
      [] c.op = "unmap" -> ubi_leb_unmap(ubi, c.vol_id, c.lnum)
      [] c.op = "erase" -> ubi_device_erase_peb(ubi, freed, EraseSteps, NoFault)
      [] c.op = "create" -> ubi_volume_create(ubi, CHOOSE cfg \in OneVolume : TRUE, AllSteps)

\* thread t enters a call: k_mutex_lock(&ubi->mutex, K_FOREVER) returns once the
\* mutex is free or the caller's own, and the thread reads the device
ThreadEnter(t) ==
    /\ mounted
    /\ thr.pc[t] = "idle"
    /\ thr.owner = 0 \/ thr.owner = t
    /\ \E c \in ThreadCalls :
        /\ c.op \in {"map", "write"} => global_seqnr < MaxSeq
        /\ c.op = "erase" =>
                \A p \in UsablePebs : EcHdrValid(peb[p].ec_hdr) => peb[p].ec_hdr.ec < MaxEc
        /\ c.op = "create" => Revision < MaxRev /\ vols_seqnr <= MaxVolId
        /\ thr' = [thr EXCEPT !.owner = t, !.count = @ + 1, !.pc[t] = "in", !.call[t] = c,
                              !.snap[t] = Dev]
    /\ UNCHANGED <<bank, peb, mounted, free_pebs, dirty_pebs, bad_pebs, global_seqnr, vols_seqnr,
                   vols, hist>>

\* thread t finishes its call: the device is written back, k_mutex_unlock gives
\* the mutex up with the owner's last lock
ThreadReturn(t) ==
    /\ mounted
    /\ thr.pc[t] = "in"
    /\ \E freed \in FreedChoices(NoFault) :
        Store(CallOp(thr.call[t], thr.snap[t], freed))
    /\ thr' = [thr EXCEPT !.owner = IF thr.count = 1 THEN 0 ELSE @, !.count = @ - 1,
                          !.pc[t] = "idle", !.call[t] = NoThreads.call[t],
                          !.snap[t] = NoThreads.snap[t]]
    /\ UNCHANGED <<mounted, hist>>

\* ubi_device_erase_peb finds no memory for bad_item: return -ENOMEM
ThreadNoMem(t) ==
    /\ mounted
    /\ thr.pc[t] = "in"
    /\ thr.call[t].op = "erase"
    /\ thr.count <= MaxLeak
    /\ thr' = [thr EXCEPT !.pc[t] = "idle", !.call[t] = NoThreads.call[t],
                          !.snap[t] = NoThreads.snap[t]]
    /\ UNCHANGED <<bank, peb, mounted, free_pebs, dirty_pebs, bad_pebs, global_seqnr, vols_seqnr,
                   vols, hist>>

\* ubi_device_deinit by thread t: the device is freed, its mutex with it
ThreadDeinit(t) ==
    /\ mounted
    /\ thr.pc[t] = "idle"
    /\ mounted' = FALSE
    /\ free_pebs' = <<>>
    /\ dirty_pebs' = <<>>
    /\ bad_pebs' = <<>>
    /\ global_seqnr' = 0
    /\ vols_seqnr' = 0
    /\ vols' = <<>>
    /\ thr' = [thr EXCEPT !.owner = 0, !.count = 0]
    /\ UNCHANGED <<bank, peb, hist>>

\* thread t finishes a call on a device that was freed under it: its flash
\* operations are carried out from what the freed memory still holds, or the
\* thread does not get that far
ThreadLost(t) ==
    /\ ~mounted
    /\ thr.pc[t] = "in"
    /\ \E stale \in BOOLEAN, freed \in GarbagePnum :
        LET r == CallOp(thr.call[t], thr.snap[t], freed)
        IN  /\ bank' = IF stale THEN r.bank ELSE bank
            /\ peb' = IF stale THEN r.peb ELSE peb
    /\ thr' = [thr EXCEPT !.pc[t] = "idle", !.call[t] = NoThreads.call[t],
                          !.snap[t] = NoThreads.snap[t]]
    /\ UNCHANGED <<mounted, free_pebs, dirty_pebs, bad_pebs, global_seqnr, vols_seqnr, vols, hist>>

NextThreads ==
    \/ (\A t \in Threads : thr.pc[t] = "idle") /\ DeviceInit
    \/ \E t \in Threads : ThreadEnter(t)
    \/ \E t \in Threads : ThreadReturn(t)
    \/ \E t \in Threads : ThreadNoMem(t)
    \/ \E t \in Threads : ThreadDeinit(t)
    \/ \E t \in Threads : ThreadLost(t)

SpecThreads == Init /\ [][NextThreads]_vars

(***************************************************************************)
(* Properties.                                                             *)
(***************************************************************************)
\* the volume with this id, as the device holds it (the call sites check that it exists)
VolOf(vol_id) == vols[ubi_rbt_search(vols, vol_id)].vol
HasVol(vol_id) == ubi_rbt_search(vols, vol_id) # 0

\* C1: while the device is attached, leb_read of every LEB of a volume returns
\* the payload of the most recent successful leb_write to it, before and after
\* every device_deinit/device_init cycle.
C1_LatestWriteWins ==
    mounted =>
        \A v \in VolIds, l \in Lnums :
            (hist.written[v][l] # <<>> /\ HasVol(v) /\ l < VolOf(v).cfg.leb_count) =>
                LET r == ubi_leb_read(Dev, v, l, 0, Len(hist.written[v][l]))
                IN  r.ret = OK /\ r.buf = hist.written[v][l]

\* how often a PEB is held: as a value of some EBA table, in the free pool, in
\* the dirty pool, on the bad list
Holders(p) ==
    Cardinality({<<i, j>> \in (DOMAIN vols) \X (1..NPeb) :
                    j \in DOMAIN vols[i].vol.eba_tbl /\ vols[i].vol.eba_tbl[j].pnum = p})
    + Cardinality({i \in DOMAIN free_pebs : free_pebs[i].pnum = p})
    + Cardinality({i \in DOMAIN dirty_pebs : dirty_pebs[i].pnum = p})
    + Cardinality({i \in DOMAIN bad_pebs : bad_pebs[i].peb_index = p})

MappedLebs == SumSeq([i \in DOMAIN vols |-> Len(vols[i].vol.eba_tbl)])

\* C2: while the device is attached every usable PEB is held exactly once (by an
\* EBA table, the free pool, the dirty pool or the bad list), and the free, dirty
\* and bad counts plus the mapped LEBs add up to the number of usable PEBs.
C2_PebPartition ==
    mounted =>
        /\ \A p \in UsablePebs : Holders(p) = 1
        /\ LET info == ubi_device_get_info(Dev)
           IN  info.free_leb_count + info.dirty_leb_count + info.bad_leb_count + MappedLebs
                   = NPeb - UBI_DEV_HDR_NR_OF_RES_PEBS

\* payload lengths on both sides of every case of ubi_leb_data_write: below one
\* write block, whole blocks, whole blocks and a rest, up to a full LEB
Lengths ==
    {1, WRITE_BLOCK_SIZE_ALIGNMENT - 1, WRITE_BLOCK_SIZE_ALIGNMENT, WRITE_BLOCK_SIZE_ALIGNMENT + 1,
     LEB_MAX - 1, LEB_MAX}

\* a payload of each length, each byte telling its position
AllPayloads == {[i \in 1..len |-> i] : len \in Lengths}

\* C3: a leb_write of 0 < len <= LEB_MAX bytes that succeeds leaves the LEB so that
\* leb_read(vol, lnum, 0, out, len) returns those bytes and leb_get_size returns len.
C3_WriteReadRoundTrip ==
    mounted =>
        \A v \in VolIds, l \in Lnums, buf \in AllPayloads :
            LET w == ubi_leb_write(Dev, v, l, buf)
                r == ubi_leb_read(w, v, l, 0, Len(buf))
                g == ubi_leb_get_size(w, v, l)
            IN  w.ret = OK => (r.ret = OK /\ r.buf = buf /\ g.ret = OK /\ g.size = Len(buf))

\* a payload whose length is no multiple of the write alignment was written and
\* is read back whole, and a further write of the longest payload succeeds
C3_Witness ==
    /\ mounted
    /\ \E v \in VolIds, l \in Lnums :
        /\ Len(hist.written[v][l]) % WRITE_BLOCK_SIZE_ALIGNMENT # 0
        /\ ubi_leb_read(Dev, v, l, 0, Len(hist.written[v][l])).buf = hist.written[v][l]
        /\ ubi_leb_get_size(Dev, v, l).size = Len(hist.written[v][l])
        /\ ubi_leb_write(Dev, v, l, Fill(LEB_MAX, 3)).ret = OK

\* C4: while the device is attached global_seqnr is greater than every sqnum on
\* the media, so the next leb_write or leb_map stamps a sqnum above all of them.
C4_SeqnrAboveMedia ==
    mounted =>
        \A p \in UsablePebs : VidHdrValid(peb[p].vid_hdr) => peb[p].vid_hdr.sqnum < global_seqnr

\* the PEBs that carry a copy of LEB (v, l): valid EC and VID headers naming it
Copies(v, l) ==
    {p \in UsablePebs : /\ EcHdrValid(peb[p].ec_hdr)
                        /\ VidHdrValid(peb[p].vid_hdr)
                        /\ peb[p].vid_hdr.vol_id = v
                        /\ peb[p].vid_hdr.lnum = l}

Newest(ps) == {p \in ps : \A q \in ps : peb[q].vid_hdr.sqnum <= peb[p].vid_hdr.sqnum}

\* C5: when the media holds several copies of a LEB (v, l) with l < leb_count,
\* device_init maps l to the copy with the largest sqnum and puts every other
\* copy into the dirty pool, whichever of them has the lower PEB index.
C5_NewestCopyWins ==
    ~mounted =>
        \A garbage \in GarbageChoices(Scanned(bank, peb)) :
            LET r == ubi_device_init(bank, peb, garbage, 0)
            IN  r.ret = OK =>
                    \A i \in DOMAIN r.vols, l \in Lnums :
                        LET vol == r.vols[i].vol
                            copies == Copies(vol.vol_id, l)
                            ei == ubi_rbt_search(vol.eba_tbl, l)
                        IN  (l < vol.cfg.leb_count /\ Cardinality(copies) >= 2) =>
                                /\ ei # 0
                                /\ vol.eba_tbl[ei].pnum \in Newest(copies)
                                /\ \A p \in copies \ {vol.eba_tbl[ei].pnum} :
                                        \E d \in DOMAIN r.dirty_pebs : r.dirty_pebs[d].pnum = p

\* C8: while the device is attached every volume has at most leb_count EBA
\* entries and every EBA key is below leb_count.
C8_EbaWithinVolume ==
    mounted =>
        \A i \in DOMAIN vols :
            /\ Len(vols[i].vol.eba_tbl) <= vols[i].vol.cfg.leb_count
            /\ \A j \in DOMAIN vols[i].vol.eba_tbl :
                    vols[i].vol.eba_tbl[j].key < vols[i].vol.cfg.leb_count

\* C6: after power is lost at any step of a volume create, remove or resize, the
\* next device_init succeeds, finds the complete volume table of before or of
\* after the operation, and leaves every data PEB as it is.
C6_CrashConsistentTable ==
    (~mounted /\ hist.crash.op \in {"create", "remove", "resize"}) =>
        \A garbage \in GarbageChoices(Scanned(bank, peb)), div0 \in Div0Choices(bank, peb) :
            LET r == ubi_device_init(bank, peb, garbage, div0)
            IN  /\ r.ret = OK
                /\ r.bank \in {hist.crash.pre, hist.crash.post}
                /\ r.peb = peb

\* C7: no step takes the erase counter in a PEB's EC header to a smaller value.
C7_EcNeverDecreases ==
    [][\A p \in UsablePebs :
            (EcHdrValid(peb[p].ec_hdr) /\ EcHdrValid(peb'[p].ec_hdr)) =>
                peb'[p].ec_hdr.ec >= peb[p].ec_hdr.ec]_vars

\* the device after device_deinit and a device_init that makes these choices
Remount(ubi, garbage) == ubi_device_init(ubi.bank, ubi.peb, garbage, 0)

SameConfig(info, cfg) ==
    /\ info.ret = OK
    /\ info.cfg.type = cfg.type
    /\ info.cfg.leb_count = cfg.leb_count
    /\ \A i \in 1..UBI_VOLUME_NAME_MAX_LEN :
            info.cfg.name[i] = IF \E j \in 1..i : cfg.name[j] = 0 THEN 0 ELSE cfg.name[i]

IdxMatchesTable(ubi) ==
    \A i \in DOMAIN ubi.vols :
        LET vol == ubi.vols[i].vol
            e0 == VolEntry(ubi.bank[UBI_DEV_HDR_RES_PEB_0], vol.vol_idx)
            e1 == VolEntry(ubi.bank[UBI_DEV_HDR_RES_PEB_1], vol.vol_idx)
        IN  /\ VolHdrValid(e0)
            /\ e0 = e1
            /\ vol.vol_idx < ubi.bank[UBI_DEV_HDR_RES_PEB_0].dev_hdr.vol_count
            /\ e0.vol_id = vol.vol_id
            /\ e0.vol_type = vol.cfg.type
            /\ e0.lebs_count = vol.cfg.leb_count
            /\ e0.name = vol.cfg.name

\* the volumes of a device: vol_id and configuration
VolSet(ubi) == {<<ubi.vols[i].vol.vol_id, ubi.vols[i].vol.cfg>> : i \in DOMAIN ubi.vols}

\* the table of after is the table of before with the lebs_count of vol_id's entry set
ResizedOnly(before, after, vol_id, leb_count) ==
    \A b \in DOMAIN after :
        /\ Len(after[b].vol_hdrs) = Len(before[b].vol_hdrs)
        /\ \A k \in DOMAIN after[b].vol_hdrs :
                after[b].vol_hdrs[k] =
                    IF before[b].vol_hdrs[k].vol_id = vol_id
                    THEN [before[b].vol_hdrs[k] EXCEPT !.lebs_count = leb_count]
                    ELSE before[b].vol_hdrs[k]

ResizeHitsOwnEntry(ubi) ==
    \A w \in VolIds, n \in LebCounts :
        LET z == ubi_volume_resize(ubi, w, [name |-> ZeroName, type |-> UBI_VOLUME_TYPE_STATIC,
                                            leb_count |-> n], AllSteps)
        IN  z.ret = OK => ResizedOnly(ubi.bank, z.bank, w, n)

C11_MapThenMapped ==
    mounted =>
        /\ \A v \in VolIds, l \in Lnums :
            LET before == ubi_leb_is_mapped(Dev, v, l)
                m == ubi_leb_map(Dev, v, l)
            IN  (before.ret = OK /\ ~before.is_mapped /\ m.ret = OK) =>
                    /\ ubi_leb_is_mapped(m, v, l) = [ret |-> OK, is_mapped |-> TRUE]
                    /\ ubi_leb_get_size(m, v, l) = [ret |-> OK, size |-> 0]
                    /\ ubi_device_get_info(m).free_leb_count
                            = ubi_device_get_info(Dev).free_leb_count - 1
        /\ \A vol_cfg \in Configs :
            LET r == ubi_volume_create(Dev, vol_cfg, AllSteps)
            IN  (r.ret = OK /\ r.vols # vols) =>
                    \A l \in 0..(vol_cfg.leb_count - 1) :
                        ubi_leb_is_mapped(r, r.out, l) = [ret |-> OK, is_mapped |-> FALSE]

\* a LEB is mapped with no payload while another LEB of the volume can still be mapped
C11_Witness ==
    /\ mounted
    /\ \E v \in VolIds, l, k \in Lnums :
        /\ ubi_leb_is_mapped(Dev, v, l).is_mapped
        /\ ubi_leb_get_size(Dev, v, l) = [ret |-> OK, size |-> 0]
        /\ hist.written[v][l] = <<>>
        /\ ~ubi_leb_is_mapped(Dev, v, k).is_mapped
        /\ ubi_leb_map(Dev, v, k).ret = OK

\* C12: on a device formatted fresh whose volumes cover every usable PEB, after
\* k cycles of mapping or writing every LEB, unmapping every LEB and erasing the
\* dirty pool empty, every usable PEB carries erase counter k and so does the
\* average, before and after detaching and attaching the device.
C12_EqualWear ==
    (AtBoundary /\ ubi_dev_is_mounted(bank)) =>
        /\ \A p \in UsablePebs : EcHdrValid(peb[p].ec_hdr) /\ peb[p].ec_hdr.ec = hist.cycle.k
        /\ ec_count(peb) = NPeb - UBI_DEV_HDR_NR_OF_RES_PEBS
        /\ ec_sum(peb) \div ec_count(peb) = hist.cycle.k
        /\ mounted =>
            /\ free_pebs_size(Dev) = NPeb - UBI_DEV_HDR_NR_OF_RES_PEBS
            /\ \A i \in DOMAIN free_pebs : free_pebs[i].key = hist.cycle.k

\* the device was detached and attached again after the last of MaxEc cycles
C12_Witness ==
    /\ AtBoundary
    /\ hist.cycle.k = MaxEc
    /\ mounted
    /\ global_seqnr = 0
    /\ \A p \in UsablePebs : peb[p].ec_hdr.ec = MaxEc

\* a name as a C string: the bytes before the first NUL
CStr(name) ==
    LET nul == {i \in DOMAIN name : name[i] = 0}
    IN  IF nul = {} THEN name ELSE SubSeq(name, 1, (CHOOSE i \in nul : \A j \in nul : i <= j) - 1)

\* the names a caller passes: those of the configurations, with and without bytes behind the NUL
AllNames == Names \cup {c.name : c \in VolConfigs}

\* C13: volume_create with the name of an existing volume returns 0 with that
\* volume's vol_id and changes nothing: not the volumes, their count, types and
\* leb_counts, not the table on the media with its revision, not the next-id
\* counter, whatever type and leb_count are asked for.
C13_CreateIdempotent ==
    mounted =>
        \A i \in DOMAIN vols, name \in AllNames, type \in VolTypes, leb_count \in 0..(NPeb - 1) :
            CStr(name) = CStr(vols[i].vol.cfg.name) =>
                LET r == ubi_volume_create(Dev, [name |-> name, type |-> type, leb_count |-> leb_count],
                                           AllSteps)
                IN  /\ r.ret = OK
                    /\ r.out = vols[i].vol.vol_id
                    /\ r.bank = bank
                    /\ r.vols = vols
                    /\ r.vols_seqnr = vols_seqnr
                    /\ ubi_device_get_info(r) = ubi_device_get_info(Dev)
                    /\ <<r.peb, r.free_pebs, r.dirty_pebs, r.bad_pebs, r.global_seqnr>>
                            = <<peb, free_pebs, dirty_pebs, bad_pebs, global_seqnr>>

\* with the table holding two volumes, a create under the first one's name with
\* another type and a leb_count beyond the device returns that volume's id
C13_Witness ==
    /\ mounted
    /\ Len(vols) = 2
    /\ \E type \in VolTypes :
        /\ type # vols[1].vol.cfg.type
        /\ LET r == ubi_volume_create(Dev, [name |-> vols[1].vol.cfg.name, type |-> type,
                                            leb_count |-> NPeb - 1], AllSteps)
           IN  r.ret = OK /\ r.out = vols[1].vol.vol_id /\ vols_seqnr > r.out + 1

\* the LEBs still free for allocation to volumes
Avail(ubi) ==
    (NPeb - UBI_DEV_HDR_NR_OF_RES_PEBS)
        - SumSeq([i \in DOMAIN ubi.vols |-> ubi.vols[i].vol.cfg.leb_count])

\* the argument of a volume_resize to leb_count
ResizeTo(leb_count) == [name |-> ZeroName, type |-> UBI_VOLUME_TYPE_STATIC, leb_count |-> leb_count]

\* C14 as stated: the leb_counts of the volumes add up to at most leb_total, and
\* every volume_create and every growing volume_resize that asks for more than
\* leb_total minus that sum returns -ENOSPC and changes nothing.
C14_NoSpaceWhenOver ==
    mounted =>
        /\ ubi_device_get_info(Dev).allocated_leb_count <= NPeb - UBI_DEV_HDR_NR_OF_RES_PEBS
        /\ \A name \in AllNames, type \in VolTypes, leb_count \in 0..(NPeb - 1) :
            leb_count > Avail(Dev) =>
                ubi_volume_create(Dev, [name |-> name, type |-> type, leb_count |-> leb_count], AllSteps)
                    = Unchanged(Dev, ENOSPC)
        /\ \A i \in DOMAIN vols, leb_count \in 0..(NPeb - 1) :
            leb_count - vols[i].vol.cfg.leb_count > Avail(Dev) =>
                ubi_volume_resize(Dev, vols[i].vol.vol_id, ResizeTo(leb_count), AllSteps)
                    = Unchanged(Dev, ENOSPC)

\* C14 amended: the leb_counts of the volumes add up to at most leb_total; a
\* volume_create under a name no volume has, and a growing volume_resize of a
\* DYNAMIC volume, return -ENOSPC and change nothing when they ask for more
\* than leb_total minus that sum.
C14_HeadroomKept ==
    mounted =>
        /\ ubi_device_get_info(Dev).allocated_leb_count <= NPeb - UBI_DEV_HDR_NR_OF_RES_PEBS
        /\ \A name \in AllNames, type \in VolTypes, leb_count \in 0..(NPeb - 1) :
            (leb_count > Avail(Dev) /\ \A i \in DOMAIN vols : CStr(name) # CStr(vols[i].vol.cfg.name)) =>
                ubi_volume_create(Dev, [name |-> name, type |-> type, leb_count |-> leb_count], AllSteps)
                    = Unchanged(Dev, ENOSPC)
        /\ \A i \in DOMAIN vols, leb_count \in 0..(NPeb - 1) :
            (leb_count - vols[i].vol.cfg.leb_count > Avail(Dev)
                /\ vols[i].vol.cfg.type = UBI_VOLUME_TYPE_DYNAMIC) =>
                ubi_volume_resize(Dev, vols[i].vol.vol_id, ResizeTo(leb_count), AllSteps)
                    = Unchanged(Dev, ENOSPC)

\* every LEB is allocated, and both a create of one LEB under a new name and a
\* resize of a DYNAMIC volume by one LEB are refused
C14_Witness ==
    /\ mounted
    /\ Avail(Dev) = 0
    /\ ubi_volume_create(Dev, [name |-> Name(<<122>>), type |-> UBI_VOLUME_TYPE_STATIC, leb_count |-> 1],
                         AllSteps).ret = ENOSPC
    /\ \E i \in DOMAIN vols :
        /\ vols[i].vol.cfg.type = UBI_VOLUME_TYPE_DYNAMIC
        /\ ubi_volume_resize(Dev, vols[i].vol.vol_id, ResizeTo(vols[i].vol.cfg.leb_count + 1),
                             AllSteps).ret = ENOSPC

\* C15: a thread that is outside of every call does not own the device mutex:
\* every call that locked it has unlocked it before it returned.
C15_MutexReleased ==
    \A t \in Threads : thr.pc[t] = "idle" => thr.owner # t

\* C16: calls of several threads are serial in the order the mutex is granted: no
\* two threads are inside a call at once, and the device a thread read after
\* locking is the device it writes back to.
C16_Linearizable ==
    \A t \in Threads :
        thr.pc[t] = "in" =>
            /\ thr.snap[t] = Dev
            /\ \A u \in Threads \ {t} : thr.pc[u] # "in"

\* C17: a flash error inside erase_peb (EC header read, block erase or EC header
\* rewrite) makes the call return success with the selected PEB on the bad list and
\* in no other pool: dirty_leb_count is one less, bad_leb_count one more, and a
\* later erase_peb does not select that PEB again.
C17_FlashErrorToBad ==
    (mounted /\ dirty_pebs_size(Dev) > 0) =>
        \A fault \in {EcReadFault, EraseFault, EcWriteFault} :
            \A freed \in FreedChoices(fault) :
                LET p == rb_get_min(dirty_pebs).pnum
                    r == ubi_device_erase_peb(Dev, freed, EraseSteps, fault)
                    before == ubi_device_get_info(Dev)
                    after == ubi_device_get_info(r)
                IN  /\ r.ret = OK
                    /\ \E i \in DOMAIN r.bad_pebs : r.bad_pebs[i].peb_index = p
                    /\ \A i \in DOMAIN r.dirty_pebs : r.dirty_pebs[i].pnum # p
                    /\ \A i \in DOMAIN r.free_pebs : r.free_pebs[i].pnum # p
                    /\ after.dirty_leb_count = before.dirty_leb_count - 1
                    /\ after.bad_leb_count = before.bad_leb_count + 1
                    /\ dirty_pebs_size(r) > 0 => rb_get_min(r.dirty_pebs).pnum # p

\* C18: without flash errors erase_peb on an empty dirty pool returns success and
\* changes nothing; on a non-empty dirty pool it moves exactly one PEB, one whose
\* erase counter is the least in the dirty pool, from dirty to free, with its
\* persisted erase counter one higher and its VID header and payload erased, and
\* leaves every other PEB, pool entry and EBA table as they were.
C18_EraseMovesMinDirty ==
    mounted =>
        \A freed \in FreedChoices(NoFault) :
            LET r == ubi_device_erase_peb(Dev, freed, EraseSteps, NoFault)
            IN  IF dirty_pebs_size(Dev) = 0
                THEN r = Unchanged(Dev, OK)
                ELSE /\ r.ret = OK
                     /\ \A j \in DOMAIN dirty_pebs : dirty_pebs[j].pnum \in UsablePebs
                     /\ \E i \in DOMAIN dirty_pebs :
                            LET p == dirty_pebs[i].pnum
                                ec == peb[p].ec_hdr.ec
                            IN  /\ \A j \in DOMAIN dirty_pebs : ec <= peb[dirty_pebs[j].pnum].ec_hdr.ec
                                /\ r.dirty_pebs = RemoveAt(dirty_pebs, i)
                                /\ Len(r.free_pebs) = Len(free_pebs) + 1
                                /\ \E k \in DOMAIN r.free_pebs :
                                        /\ r.free_pebs[k] = Item(ec + 1, p)
                                        /\ RemoveAt(r.free_pebs, k) = free_pebs
                                /\ r.peb = [peb EXCEPT ![p] =
                                                [ErasedPeb EXCEPT !.ec_hdr = MakeEcHdr(ec + 1)]]
                     /\ r.bad_pebs = bad_pebs
                     /\ r.vols = vols
                     /\ r.bank = bank
                     /\ r.global_seqnr = global_seqnr
                     /\ r.vols_seqnr = vols_seqnr

\* a recycled PEB is back in the free pool, erased, with its erase counter one higher
C18_Witness ==
    /\ mounted
    /\ dirty_pebs = <<>>
    /\ vols # <<>>
    /\ \E i \in DOMAIN free_pebs :
        /\ free_pebs[i].key = 1
        /\ peb[free_pebs[i].pnum] = [ErasedPeb EXCEPT !.ec_hdr = MakeEcHdr(1)]

\* C19: volume_resize returns -ECANCELED and leaves the volume's leb_count, its
\* EBA, the pools and the table on flash as they were when the volume is STATIC,
\* when the new leb_count is the current one, and when the new leb_count is zero.
C19_ResizeCanceled ==
    mounted =>
        \A i \in DOMAIN vols, leb_count \in LebCounts :
            LET vol == vols[i].vol
            IN  (\/ vol.cfg.type = UBI_VOLUME_TYPE_STATIC
                 \/ leb_count = vol.cfg.leb_count
                 \/ leb_count = 0) =>
                    ubi_volume_resize(Dev, vols[i].key, ResizeTo(leb_count), AllSteps)
                        = Unchanged(Dev, ECANCELED)

\* C20: on a LEB of an existing volume that is not mapped, leb_unmap returns
\* -EACCES, leb_read and leb_get_size return -ENOENT, leb_is_mapped returns false,
\* and no pool, EBA table, counter or flash content changes.
C20_UnmappedLeb ==
    mounted =>
        \A i \in DOMAIN vols :
            \A lnum \in 0..(vols[i].vol.cfg.leb_count - 1) :
                ubi_rbt_search(vols[i].vol.eba_tbl, lnum) = 0 =>
                    /\ ubi_leb_unmap(Dev, vols[i].key, lnum) = Unchanged(Dev, EACCES)
                    /\ \A offset \in 0..1, size \in {1, LEB_MAX} :
                            ubi_leb_read(Dev, vols[i].key, lnum, offset, size).ret = ENOENT
                    /\ ubi_leb_get_size(Dev, vols[i].key, lnum).ret = ENOENT
                    /\ ubi_leb_is_mapped(Dev, vols[i].key, lnum) = [ret |-> OK, is_mapped |-> FALSE]

\* a LEB that was mapped and unmapped again: its volume has no mapped LEB, its
\* PEB waits in the dirty pool
C20_Witness ==
    /\ mounted
    /\ dirty_pebs # <<>>
    /\ \E i \in DOMAIN vols :
        /\ vols[i].vol.cfg.leb_count > 0
        /\ vols[i].vol.eba_tbl = <<>>
        /\ ubi_leb_unmap(Dev, vols[i].key, 0).ret = EACCES

\* C21: there are never more than CONFIG_UBI_MAX_NR_OF_VOLUMES volumes: with that
\* many, volume_create under a new name returns -ENOSPC and leaves volumes_count,
\* both banks of the volume table and the revision of the device header as they were.
C21_VolumeLimit ==
    mounted =>
        /\ vols_size(Dev) <= CONFIG_UBI_MAX_NR_OF_VOLUMES
        /\ vols_size(Dev) = CONFIG_UBI_MAX_NR_OF_VOLUMES =>
            \A name \in AllNames \cup {Name(<<122>>)}, type \in VolTypes, leb_count \in 0..(NPeb - 1) :
                (\A i \in DOMAIN vols : CStr(name) # CStr(vols[i].vol.cfg.name)) =>
                    LET r == ubi_volume_create(Dev, [name |-> name, type |-> type, leb_count |-> leb_count],
                                               AllSteps)
                    IN  /\ r.ret = ENOSPC
                        /\ ubi_device_get_info(r).volumes_count = ubi_device_get_info(Dev).volumes_count
                        /\ r.vols = vols
                        /\ r.bank = bank
                        /\ ubi_dev_hdr_read(r.bank).hdr.revision = Revision

\* the table is full and a create of a volume without LEBs under a new name is refused
C21_Witness ==
    /\ mounted
    /\ vols_size(Dev) = CONFIG_UBI_MAX_NR_OF_VOLUMES
    /\ ubi_volume_create(Dev, [name |-> Name(<<122>>), type |-> UBI_VOLUME_TYPE_DYNAMIC, leb_count |-> 0],
                         AllSteps).ret = ENOSPC

\* C22: after a volume_remove(vol_id) that succeeds, volume_get_info of vol_id
\* returns -ENOENT, volumes_count is one less, and every PEB the volume had mapped
\* is in the dirty pool and in no EBA table; after device_deinit/device_init the
\* volume is still absent and those PEBs are dirty again.
C22_RemoveReleases ==
    mounted =>
        \A i \in DOMAIN vols :
            \A visit \in VisitChoices(vols[i].vol.eba_tbl) :
                LET vol == vols[i].vol
                    pebs == {vol.eba_tbl[j].pnum : j \in DOMAIN vol.eba_tbl}
                    r == ubi_volume_remove(Dev, vol.vol_id, visit, AllSteps)
                IN  r.ret = OK =>
                        /\ ubi_volume_get_info(r, vol.vol_id).ret = ENOENT
                        /\ ubi_device_get_info(r).volumes_count = ubi_device_get_info(Dev).volumes_count - 1
                        /\ \A p \in pebs :
                            /\ \E k \in DOMAIN r.dirty_pebs : r.dirty_pebs[k].pnum = p
                            /\ \A v \in DOMAIN r.vols :
                                \A j \in DOMAIN r.vols[v].vol.eba_tbl : r.vols[v].vol.eba_tbl[j].pnum # p
                        /\ \A garbage \in GarbageChoices(r.peb) :
                            LET m == Remount(r, garbage)
                            IN  /\ m.ret = OK
                                /\ ubi_volume_get_info(m, vol.vol_id).ret = ENOENT
                                /\ \A p \in pebs : \E k \in DOMAIN m.dirty_pebs : m.dirty_pebs[k].pnum = p

\* C23: device_init on a blank partition formats it: device_get_info then reports
\* allocated 0, dirty 0, bad 0, free = leb_total = NPeb - 2, no volumes and
\* leb_size = erase_block_size - 48, every usable PEB has erase counter 0, and a
\* device_deinit/device_init that follows reports the same.
C23_FreshFormat ==
    (~mounted /\ \A b \in DOMAIN bank : bank[b] = ErasedBank /\ \A p \in UsablePebs : peb[p] = ErasedPeb) =>
        \A garbage \in GarbageChoices(Scanned(bank, peb)), div0 \in Div0Choices(bank, peb) :
            LET r == ubi_device_init(bank, peb, garbage, div0)
                fresh == [allocated_leb_count |-> 0, free_leb_count |-> NPeb - 2, dirty_leb_count |-> 0,
                          bad_leb_count |-> 0, leb_total_count |-> NPeb - 2,
                          leb_size |-> erase_block_size - 48, volumes_count |-> 0]
            IN  /\ r.ret = OK
                /\ ubi_device_get_info(r) = fresh
                /\ \A p \in UsablePebs : ubi_ec_hdr_read(r.peb, p) = [ret |-> OK, hdr |-> MakeEcHdr(0)]
                /\ \A again \in GarbageChoices(r.peb) :
                    /\ Remount(r, again).ret = OK
                    /\ ubi_device_get_info(Remount(r, again)) = fresh
                    /\ \A p \in UsablePebs : ubi_ec_hdr_read(Remount(r, again).peb, p).hdr.ec = 0

\* the device right after the format: attached, table revision 0, all PEBs free at erase counter 0
C23_Witness ==
    /\ mounted
    /\ Revision = 0
    /\ vols = <<>>
    /\ free_pebs_size(Dev) = NPeb - UBI_DEV_HDR_NR_OF_RES_PEBS
    /\ \A p \in UsablePebs : peb[p] = [ErasedPeb EXCEPT !.ec_hdr = MakeEcHdr(0)]

\* C24: when mapped LEBs are unmapped while the dirty pool was empty and the
\* device is detached and attached again with no erase_peb in between,
\* device_get_info reports dirty_leb_count 0 and the free_leb_count from before
\* the unmap: the scan counts the unmapped PEBs neither as dirty nor as free.
C24_UnmapUndoneByRemount ==
    (mounted /\ dirty_pebs_size(Dev) = 0) =>
        \A i \in DOMAIN vols, l1 \in Lnums, l2 \in Lnums :
            LET u1 == ubi_leb_unmap(Dev, vols[i].key, l1)
                u2 == ubi_leb_unmap(u1, vols[i].key, l2)
                Same(u) == \A garbage \in GarbageChoices(u.peb) :
                              LET m == Remount(u, garbage)
                              IN  /\ m.ret = OK
                                  /\ ubi_device_get_info(m).dirty_leb_count = 0
                                  /\ ubi_device_get_info(m).free_leb_count
                                        = ubi_device_get_info(Dev).free_leb_count
            IN  /\ u1.ret = OK => Same(u1)
                /\ (u1.ret = OK /\ u2.ret = OK) => Same(u2)

C26_TieKeepsResident ==
    mounted =>
        \A garbage \in GarbageChoices(peb) :
            \A q \in UsablePebs, p \in UsablePebs :
                LET m == Remount(Dev, garbage)
                    a == ubi_vid_hdr_read(peb, q, TRUE)
                    b == ubi_vid_hdr_read(peb, p, TRUE)
                    vi == ubi_rbt_search(m.vols, a.hdr.vol_id)
                IN  (/\ q < p
                     /\ ubi_ec_hdr_read(peb, q).ret = OK /\ ubi_ec_hdr_read(peb, p).ret = OK
                     /\ a.ret = OK /\ b.ret = OK
                     /\ a.hdr.vol_id = b.hdr.vol_id /\ a.hdr.lnum = b.hdr.lnum
                     /\ a.hdr.sqnum = b.hdr.sqnum
                     /\ \A o \in UsablePebs \ {q, p} :
                            LET c == ubi_vid_hdr_read(peb, o, TRUE)
                            IN  ~(c.ret = OK /\ c.hdr.vol_id = a.hdr.vol_id /\ c.hdr.lnum = a.hdr.lnum)
                     /\ m.ret = OK /\ vi # 0
                     /\ a.hdr.lnum < m.vols[vi].vol.cfg.leb_count) =>
                        /\ \E j \in DOMAIN m.vols[vi].vol.eba_tbl :
                                m.vols[vi].vol.eba_tbl[j] = Item(a.hdr.lnum, q)
                        /\ \E k \in DOMAIN m.dirty_pebs : m.dirty_pebs[k].pnum = p

\* C27: with both banks valid and equal, volume_remove and volume_resize of an
\* existing volume succeed, their new device header carrying revision + 1 (and
\* vol_count - 1 for the remove), also when the table holds
\* CONFIG_UBI_MAX_NR_OF_VOLUMES volumes.
C27_TableChangeSucceeds ==
    (mounted /\ ubi_dev_hdr_read(bank).ret = OK) =>
        \A i \in DOMAIN vols :
            LET vol == vols[i].vol
                old == ubi_dev_hdr_read(bank).hdr
                vh == ubi_vol_hdr_read(bank, vol.vol_idx)
            IN  /\ ubi_vol_hdr_remove(bank, MakeDevHdr(old.revision + 1, old.vol_count - 1),
                                      vol.vol_idx, AllSteps).ret = OK
                /\ vh.ret = OK =>
                        ubi_vol_hdr_update(bank, MakeDevHdr(old.revision + 1, old.vol_count),
                                           vol.vol_idx, vh.hdr, AllSteps).ret = OK
                /\ \A visit \in VisitChoices(vol.eba_tbl) :
                        ubi_volume_remove(Dev, vol.vol_id, visit, AllSteps).ret = OK
                /\ \A leb_count \in 1..MaxLebCount :
                        (/\ vol.cfg.type = UBI_VOLUME_TYPE_DYNAMIC
                         /\ leb_count # vol.cfg.leb_count
                         /\ leb_count - vol.cfg.leb_count <= Avail(Dev)) =>
                            ubi_volume_resize(Dev, vol.vol_id, ResizeTo(leb_count), AllSteps).ret = OK

\* C28: no two existing volumes share a vol_id, and a volume_create under a new
\* name yields a vol_id greater than every vol_id assigned before: greater than
\* those of the existing volumes, and, when that volume is removed again and
\* the device detached and attached, the next volume_create yields a greater
\* vol_id still.
C28_VolIdNeverReused ==
    mounted =>
        /\ \A i, j \in DOMAIN vols : i # j => vols[i].vol.vol_id # vols[j].vol.vol_id
        /\ \A vol_cfg \in VolConfigs :
            LET r == ubi_volume_create(Dev, vol_cfg, AllSteps)
                gone == ubi_volume_remove(r, r.out, {}, AllSteps)
            IN  (r.ret = OK /\ r.vols # vols) =>
                    /\ \A i \in DOMAIN vols : r.out > vols[i].vol.vol_id
                    /\ gone.ret = OK =>
                        \A garbage \in GarbageChoices(gone.peb), next_cfg \in VolConfigs :
                            LET again == Remount(gone, garbage)
                                n == ubi_volume_create(again, next_cfg, AllSteps)
                            IN  (again.ret = OK /\ n.ret = OK /\ n.vols # again.vols) =>
                                    n.out > r.out

\* C29: a leb_write on a mapped LEB that returns an error, for one a flash
\* error while it writes the new VID header or the payload, leaves the LEB
\* mapped to the PEB it had, and leb_read yields the payload it yielded.
C29_FailedWriteKeepsLeb ==
    mounted =>
        \A vol_id \in VolIds, lnum \in Lnums, buf \in Payloads,
           fault \in {NoFault, VidWriteFault, DataWriteFault}, landed \in BOOLEAN :
            LET vi == ubi_rbt_search(vols, vol_id)
                ei == ubi_rbt_search(vols[vi].vol.eba_tbl, lnum)
                size == ubi_leb_get_size(Dev, vol_id, lnum)
                r == leb_write_flash(Dev, vol_id, lnum, buf, fault, landed)
                ri == ubi_rbt_search(r.vols[vi].vol.eba_tbl, lnum)
            IN  (vi # 0 /\ ei # 0 /\ size.ret = OK /\ size.size > 0 /\ r.ret # OK) =>
                    /\ ri # 0
                    /\ r.vols[vi].vol.eba_tbl[ri].pnum = vols[vi].vol.eba_tbl[ei].pnum
                    /\ ubi_leb_read(r, vol_id, lnum, 0, size.size)
                            = ubi_leb_read(Dev, vol_id, lnum, 0, size.size)

\* C30: on a LEB of an existing volume, ubi_leb_write and ubi_leb_map with an
\* empty free pool, and ubi_leb_write of more than LEB_MAX bytes with any free
\* pool, return -ENOSPC and leave the volumes with their mappings, the three
\* pools, the flash and global_seqnr as they were, whatever the dirty pool holds.
C30_NoSpaceChangesNothing ==
    mounted =>
        \A vol_id \in VolIds, lnum \in Lnums :
            LET Same(r) == /\ r.ret = ENOSPC
                           /\ r.vols = vols
                           /\ r.free_pebs = free_pebs
                           /\ r.dirty_pebs = dirty_pebs
                           /\ r.bad_pebs = bad_pebs
                           /\ r.peb = peb
                           /\ r.bank = bank
                           /\ r.global_seqnr = global_seqnr
            IN  (HasVol(vol_id) /\ lnum < VolOf(vol_id).cfg.leb_count) =>
                    /\ Same(ubi_leb_write(Dev, vol_id, lnum, Fill(LEB_MAX + 1, 3)))
                    /\ free_pebs_size(Dev) = 0 =>
                        /\ Same(ubi_leb_map(Dev, vol_id, lnum))
                        /\ \A buf \in Payloads : Same(ubi_leb_write(Dev, vol_id, lnum, buf))

\* the free pool is empty, the dirty pool is not, and a write to a mapped LEB
\* is refused
C30_Witness ==
    /\ mounted
    /\ free_pebs = <<>>
    /\ dirty_pebs # <<>>
    /\ \E vol_id \in VolIds, lnum \in Lnums, buf \in Payloads :
        /\ HasVol(vol_id)
        /\ lnum < VolOf(vol_id).cfg.leb_count
        /\ ubi_leb_is_mapped(Dev, vol_id, lnum).is_mapped
        /\ ubi_leb_write(Dev, vol_id, lnum, buf).ret = ENOSPC
        /\ ubi_leb_write(Dev, vol_id, lnum, Fill(LEB_MAX + 1, 3)).ret = ENOSPC

\* C31: after a ubi_leb_unmap that returns 0 the LEB is not mapped and
\* ubi_leb_read of it returns -ENOENT, at once and after a
\* device_deinit/device_init cycle, whether ubi_device_erase_peb recycled the
\* PEB before the cycle or not.
C31_UnmapSurvivesRemount ==
    mounted =>
        \A vol_id \in VolIds, lnum \in Lnums :
            LET r == ubi_leb_unmap(Dev, vol_id, lnum)
                erased == ubi_device_erase_peb(r, 0, EraseSteps, NoFault)
                Absent(ubi) == /\ ~ubi_leb_is_mapped(ubi, vol_id, lnum).is_mapped
                               /\ ubi_leb_read(ubi, vol_id, lnum, 0, 1).ret = ENOENT
            IN  (r.ret = OK /\ lnum < VolOf(vol_id).cfg.leb_count) =>
                    /\ Absent(r)
                    /\ \A garbage \in GarbageChoices(r.peb) :
                            Remount(r, garbage).ret = OK => Absent(Remount(r, garbage))
                    /\ dirty_pebs_size(r) = 1 =>
                        \A garbage \in GarbageChoices(erased.peb) :
                            Remount(erased, garbage).ret = OK => Absent(Remount(erased, garbage))

\* C32: when power is lost inside a leb_write to a mapped LEB (before the VID
\* header write, between it and the payload write, or after the payload
\* write), the next ubi_device_init leaves the LEB mapped, and ubi_leb_read
\* yields either the whole payload of before or the whole new payload, with
\* the matching size.
C32_WriteCutByPowerLoss ==
    mounted =>
        \A vol_id \in VolIds, lnum \in Lnums, buf \in Payloads,
           fault \in {VidWriteFault, DataWriteFault}, landed \in BOOLEAN :
            LET size == ubi_leb_get_size(Dev, vol_id, lnum)
                old == ubi_leb_read(Dev, vol_id, lnum, 0, size.size)
                cut == leb_write_flash(Dev, vol_id, lnum, buf, fault, landed)
            IN  (/\ HasVol(vol_id)
                 /\ lnum < VolOf(vol_id).cfg.leb_count
                 /\ size.ret = OK /\ size.size > 0 /\ old.ret = OK
                 /\ cut.ret = EIO) =>
                    \A garbage \in GarbageChoices(cut.peb) :
                        LET after == ubi_device_init(bank, cut.peb, garbage, 0)
                            now == ubi_leb_get_size(after, vol_id, lnum)
                            got == ubi_leb_read(after, vol_id, lnum, 0, now.size)
                        IN  after.ret = OK =>
                                /\ ubi_leb_is_mapped(after, vol_id, lnum).is_mapped
                                /\ now.ret = OK /\ got.ret = OK
                                /\ \/ now.size = size.size /\ got.buf = old.buf
                                   \/ now.size = Len(buf) /\ got.buf = buf

\* C33: the pools, the volumes with their EBA tables and the sequence counters
\* of an attached device change, and the device is torn down, only in a step
\* of the thread that owns the device mutex and is inside a call; and a thread
\* inside a call always has the device it locked.
C33_OnlyUnderMutex ==
    /\ [](\A t \in Threads : thr.pc[t] = "in" => mounted)
    /\ [][(/\ mounted
           /\ <<mounted, free_pebs, dirty_pebs, bad_pebs, global_seqnr, vols_seqnr, vols>>'
                # <<mounted, free_pebs, dirty_pebs, bad_pebs, global_seqnr, vols_seqnr, vols>>)
            => (thr.owner # 0 /\ thr.pc[thr.owner] = "in")]_vars

\* C34: a ubi_volume_create of a new name, a ubi_volume_remove and a
\* ubi_volume_resize that return 0 leave both banks equal with the device
\* header's revision one higher; every other call (the same three when they
\* fail or create finds the name, LEB writes, maps and unmaps, erase_peb and a
\* device_deinit/device_init cycle) leaves both banks as they were.
C34_RevisionPerTableChange ==
    mounted =>
        LET rev == ubi_dev_hdr_read(bank).hdr.revision
            Bumped(r) == /\ r.bank[UBI_DEV_HDR_RES_PEB_0] = r.bank[UBI_DEV_HDR_RES_PEB_1]
                         /\ ubi_dev_hdr_read(r.bank).ret = OK
                         /\ ubi_dev_hdr_read(r.bank).hdr.revision = rev + 1
            Kept(r) == r.bank = bank
        IN  /\ \A vol_cfg \in VolConfigs \cup OneVolume :
                LET r == ubi_volume_create(Dev, vol_cfg, AllSteps)
                IN  IF r.ret = OK /\ r.vols # vols THEN Bumped(r) ELSE Kept(r)
            /\ \A vol_id \in VolIds :
                /\ \A visit \in VisitOf(vol_id) :
                    LET r == ubi_volume_remove(Dev, vol_id, visit, AllSteps)
                    IN  IF r.ret = OK THEN Bumped(r) ELSE Kept(r)
                /\ \A leb_count \in LebCounts :
                    LET r == ubi_volume_resize(Dev, vol_id, ResizeTo(leb_count), AllSteps)
                    IN  IF r.ret = OK THEN Bumped(r) ELSE Kept(r)
                /\ \A lnum \in Lnums :
                    /\ Kept(ubi_leb_map(Dev, vol_id, lnum))
                    /\ Kept(ubi_leb_unmap(Dev, vol_id, lnum))
                    /\ \A buf \in Payloads : Kept(ubi_leb_write(Dev, vol_id, lnum, buf))
            /\ \A freed \in FreedChoices(NoFault) :
                    Kept(ubi_device_erase_peb(Dev, freed, EraseSteps, NoFault))
            /\ \A garbage \in GarbageChoices(peb) : Kept(Remount(Dev, garbage))

\* C35: a shrinking ubi_volume_resize from old_count to new_count that returns
\* 0 moves the PEBs mapped at lnum in [new_count, old_count), and no others,
\* from the volume's EBA table to the dirty pool and leaves the other entries
\* of the table, the other volumes and the flash as they were; one that returns
\* an error leaves EBA tables and dirty pool as they were.  Checked on the
\* device as it is and on the device after volumes were added until the table
\* is full.
C35_ShrinkFrame ==
    mounted =>
        LET Extra(n) == [name |-> Name(<<98 + n>>), type |-> UBI_VOLUME_TYPE_STATIC, leb_count |-> 0]
            RECURSIVE Filled(_, _)
            Filled(ubi, n) == IF n = 0 THEN ubi
                              ELSE Filled(ubi_volume_create(ubi, Extra(n), AllSteps), n - 1)
            Pnums(tree) == {tree[i].pnum : i \in DOMAIN tree}
            Frame(ubi) ==
                \A vi \in DOMAIN ubi.vols, new_count \in LebCounts :
                    LET vol == ubi.vols[vi].vol
                        r == ubi_volume_resize(ubi, vol.vol_id, ResizeTo(new_count), AllSteps)
                        Stays(e) == ~(new_count <= e.key /\ e.key < vol.cfg.leb_count)
                        Goes(e) == ~Stays(e)
                    IN  new_count < vol.cfg.leb_count =>
                            IF r.ret = OK
                            THEN /\ r.vols[vi].vol.eba_tbl = SelectSeq(vol.eba_tbl, Stays)
                                 /\ Pnums(r.dirty_pebs)
                                        = Pnums(ubi.dirty_pebs) \cup Pnums(SelectSeq(vol.eba_tbl, Goes))
                                 /\ Len(r.dirty_pebs)
                                        = Len(ubi.dirty_pebs) + Len(SelectSeq(vol.eba_tbl, Goes))
                                 /\ \A j \in DOMAIN ubi.vols \ {vi} : r.vols[j] = ubi.vols[j]
                                 /\ r.peb = ubi.peb
                            ELSE /\ r.vols = ubi.vols
                                 /\ r.dirty_pebs = ubi.dirty_pebs
        IN  /\ Frame(Dev)
            /\ Frame(Filled(Dev, CONFIG_UBI_MAX_NR_OF_VOLUMES - vols_size(Dev)))

\* C36: ubi_device_init on a formatted partition puts every usable PEB where
\* its headers on flash say: invalid EC header, or valid EC header with a VID
\* header that is neither erased nor valid, on the bad list; valid EC header
\* and erased VID header, in the free pool; valid VID header of no known
\* volume or with lnum >= leb_count, in the dirty pool; any other PEB in the
\* EBA table of its volume under its lnum, or in the dirty pool; each PEB in
\* one place only, and every free or dirty entry under the PEB's own erase
\* counter.
C36_ScanClassifies ==
    mounted =>
        \A garbage \in GarbageChoices(peb) :
            LET r == Remount(Dev, garbage)
                InTree(tree, p) == Cardinality({i \in DOMAIN tree : tree[i].pnum = p})
                InBad(p) == Cardinality({i \in DOMAIN r.bad_pebs : r.bad_pebs[i].peb_index = p})
                InEba(p) == SumSeq([i \in DOMAIN r.vols |-> InTree(r.vols[i].vol.eba_tbl, p)])
                Only(n, p) == n = 1 /\ InTree(r.free_pebs, p) + InTree(r.dirty_pebs, p) + InBad(p) + InEba(p) = 1
                Keyed(tree) == \A i \in DOMAIN tree :
                                    /\ tree[i].pnum \in UsablePebs
                                    /\ EcHdrValid(peb[tree[i].pnum].ec_hdr)
                                    /\ tree[i].key = peb[tree[i].pnum].ec_hdr.ec
            IN  r.ret = OK =>
                    /\ Keyed(r.free_pebs)
                    /\ Keyed(r.dirty_pebs)
                    /\ \A p \in UsablePebs :
                        LET vid == peb[p].vid_hdr
                            vi == ubi_rbt_search(r.vols, vid.vol_id)
                            eba == r.vols[vi].vol.eba_tbl
                        IN  IF ~EcHdrValid(peb[p].ec_hdr) THEN Only(InBad(p), p)
                            ELSE IF vid = ErasedVidHdr THEN Only(InTree(r.free_pebs, p), p)
                            ELSE IF ~VidHdrValid(vid) THEN Only(InBad(p), p)
                            ELSE IF vi = 0 \/ vid.lnum >= r.vols[vi].vol.cfg.leb_count
                            THEN Only(InTree(r.dirty_pebs, p), p)
                            ELSE \/ Only(InTree(r.dirty_pebs, p), p)
                                 \/ /\ Only(InEba(p), p)
                                    /\ \E i \in DOMAIN eba : eba[i].pnum = p /\ eba[i].key = vid.lnum

\* C37: ubi_device_init on a formatted partition returns a device or an error
\* code for every content of the flash; when no usable PEB has a valid EC
\* header, the quotient ec_sum / ec_count has one value on every run and the
\* device has every usable PEB on its bad list.
C37_InitAlwaysReturns ==
    (~mounted /\ ubi_dev_is_mounted(bank)) =>
        \A garbage \in GarbageChoices(peb), div0 \in Div0Choices(bank, peb) :
            LET r == ubi_device_init(bank, peb, garbage, div0)
            IN  /\ r.ret # FAULT
                /\ \A other \in Div0Choices(bank, peb) :
                        ubi_device_init(bank, peb, garbage, other) = r
                /\ (r.ret = OK /\ ec_count(peb) = 0) =>
                        /\ {r.bad_pebs[i].peb_index : i \in DOMAIN r.bad_pebs} = UsablePebs
                        /\ Len(r.bad_pebs) = Cardinality(UsablePebs)

\* C38: a ubi_leb_write, ubi_leb_map or ubi_leb_unmap on one LEB that returns 0
\* leaves what ubi_leb_is_mapped, ubi_leb_get_size and ubi_leb_read report of
\* every other LEB (lnum < leb_count) of every volume as it was before the
\* call, at once and after a device_deinit/device_init cycle that follows.
C38_OtherLebsUntouched ==
    mounted =>
        \A vol_id \in VolIds, lnum \in Lnums :
            LET Seen(ubi, v, l) == <<ubi_leb_is_mapped(ubi, v, l), ubi_leb_get_size(ubi, v, l),
                                     ubi_leb_read(ubi, v, l, 0, LEB_MAX)>>
                Calls == {ubi_leb_map(Dev, vol_id, lnum), ubi_leb_unmap(Dev, vol_id, lnum)}
                            \cup {ubi_leb_write(Dev, vol_id, lnum, buf) : buf \in Payloads}
            IN  \A r \in Calls :
                    r.ret = OK =>
                        \A v \in VolIds, l \in Lnums :
                            (<<v, l>> # <<vol_id, lnum>> /\ HasVol(v) /\ l < VolOf(v).cfg.leb_count) =>
                                /\ Seen(r, v, l) = Seen(Dev, v, l)
                                /\ \A garbage \in GarbageChoices(r.peb) :
                                        Remount(r, garbage).ret = OK =>
                                            Seen(Remount(r, garbage), v, l) = Seen(Dev, v, l)

\* C39: ubi_device_init on a formatted partition leaves banks and PEBs as they
\* are, and one device_deinit/device_init cycle after another, with no call in
\* between, attaches devices that report the same device info, the same volume
\* infos, the same EBA tables and the same mapping, size and payload of every
\* LEB.
C39_RemountRepeats ==
    mounted =>
        \A first \in GarbageChoices(peb) :
            LET r1 == Remount(Dev, first)
                Report(ubi) ==
                    <<ubi_device_get_info(ubi),
                      [v \in VolIds |-> ubi_volume_get_info(ubi, v)],
                      [i \in DOMAIN ubi.vols |-> ubi.vols[i].vol.eba_tbl],
                      [v \in VolIds |-> [l \in Lnums |->
                            <<ubi_leb_is_mapped(ubi, v, l), ubi_leb_get_size(ubi, v, l),
                              ubi_leb_read(ubi, v, l, 0, LEB_MAX)>>]]>>
            IN  /\ r1.bank = bank
                /\ r1.peb = peb
                /\ r1.ret = OK =>
                    \A second \in GarbageChoices(r1.peb) :
                        LET r2 == Remount(r1, second)
                        IN  /\ r2.ret = OK
                            /\ r2.bank = bank
                            /\ r2.peb = peb
                            /\ Report(r2) = Report(r1)

\* C40: with d PEBs in the dirty pool, d calls of ubi_device_erase_peb with no
\* other call in between leave the dirty pool empty, also when the flash
\* driver fails every erase of one of the PEBs (failing = 0: of none).
C40_DirtyPoolDrains ==
    mounted =>
        \A failing \in {0} \cup UsablePebs, freed \in GarbagePnum :
            LET FaultOn(ubi) == IF dirty_pebs_size(ubi) > 0 /\ rb_get_min(ubi.dirty_pebs).pnum = failing
                                THEN EraseFault ELSE NoFault
                RECURSIVE Drain(_, _)
                Drain(ubi, n) ==
                    IF n = 0 THEN ubi
                    ELSE Drain(ubi_device_erase_peb(ubi, freed, EraseSteps, FaultOn(ubi)), n - 1)
                after == Drain(Dev, dirty_pebs_size(Dev))
            IN  /\ after.ret = OK
                /\ ubi_device_get_info(after).dirty_leb_count = 0

====
